---- MODULE Spec2Model ----
(***************************************************************************)
(* Design System Copilot (tastolini/figma-hdds-plugin).                    *)
(*                                                                         *)
(* Three components are modelled, each under its own specification:        *)
(*   SpecParser  the Stream Chunk Parser (components/message.tsx)          *)
(*   SpecChat    the chat endpoint (app/api/chat/route.ts)                 *)
(*   SpecPlugin  the plugin's message handler and Command Executor         *)
(*               (plugin/code.ts)                                          *)
(***************************************************************************)
EXTENDS Integers, Sequences, FiniteSets, TLC

(***************************************************************************)
(* Bounds of the model.                                                    *)
(***************************************************************************)
\* the largest number of lines of one message content
MaxLines == 3
\* the largest number of messages of one chat request
MaxMsgs == 2
\* the largest number of chunks the provider stream yields
MaxChunks == 2

\* the actions of a script
MaxActions == 3

\* the snapshot requests and selection changes of a behaviour
MaxEvents == 2

\* the host calls of an action of which one may be refused
MaxFaultCall == 2

\* the submissions, response chunks, response ends, clicks and selection
\* changes of a run of the chat page
MaxUiEvents == 4

VARIABLES
    \* ---- Stream Chunk Parser (message.tsx) ----
    msgLines,    \* the lines the stream has accumulated, as catalogue ids
    content,     \* message.content: the accumulated text, a token sequence
    rendered,    \* whether renderContent has run on the current content
    elements,    \* the element list renderContent returned
    rcThrew,     \* whether renderContent propagated an exception
    rcStage,     \* which return of renderContent was taken
    \* ---- Chat endpoint (app/api/chat/route.ts) ----
    req,           \* the body of the POST request
    cpc,           \* where the handler is: received, awaitProvider, streaming, done
    respStatus,    \* the HTTP status of the Response returned (0: none yet)
    respBody,      \* the body of a Response that is not a stream
    isActionRequest, \* the handler's isActionRequest
    provState,     \* the provider call: none, pending, threw, streaming, failed, ended
    providerCalls, \* how many times generateContentStream was called
    sentContents,  \* the contents (chatHistory) given to generateContentStream
    timestamp,     \* Date.now() at the start of the stream
    chunksRead,    \* how many chunks the provider stream has yielded
    yielded,       \* the chunks the provider stream has yielded, in order
    fullResponse,  \* the buffered model output of an action request
    ctrl,          \* the ReadableStream controller: state, chunks, calls
    \* ---- Figma plugin (plugin/code.ts, components/color-table.tsx) ----
    pluginVariant, \* which plugin code runs: colorTable or code
    doc,           \* the host document: nodes, variable collections, variables
    pageSelection, \* figma.currentPage.selection, a sequence of node ids
    inbox,         \* the messages the UI has posted and the plugin has not handled
    outbox,        \* the messages the plugin has posted to the UI
    handled,       \* the messages figma.ui.onmessage was called with, with the document then
    execLog,       \* the paths of the actions dispatched by the last script, in order
    execThrew,     \* whether an action of the last script threw
    execAt,        \* the path of the action that threw
    \* ---- Color utility functions (plugin/code.ts) ----
    colorValue,    \* the VariableValue toHexColor is called with
    hexColor,      \* the string toHexColor returned
    \* ---- Chat pages (app/page.tsx and the page of plugin/code.ts) ----
    uiVariant,       \* "auto": the page that executes scripts by itself; "confirm": the page with Execute Script
    uiMessages,      \* messages of useChat: [role, content]
    uiLoading,       \* isLoading of useChat
    uiSelection,     \* the state `selection`
    scriptToExecute, \* the state `scriptToExecute`
    posted,          \* every pluginMessage the page has posted to the plugin, in order
    pluginRead,      \* how many of them the plugin has handled
    toUi,            \* every message the plugin has posted to the page, in order
    uiRead,          \* how many of them the page has handled
    hostSelection,   \* figma.currentPage.selection
    chatSent,        \* the chat requests sent: the selection of the body, and the GET_SELECTION posted with it
    timers,          \* the pending setTimeout callbacks, each with the messages it closed over
    uiEvents         \* the number of user, provider and host events so far

parserVars == <<msgLines, content, rendered, elements, rcThrew, rcStage>>

chatVars == <<req, cpc, respStatus, respBody, isActionRequest, provState,
              providerCalls, sentContents, timestamp, chunksRead, yielded,
              fullResponse, ctrl>>

pluginVars == <<pluginVariant, doc, pageSelection, inbox, outbox, handled,
                execLog, execThrew, execAt>>

colorVars == <<colorValue, hexColor>>

uiVars == <<uiVariant, uiMessages, uiLoading, uiSelection, scriptToExecute, posted,
           pluginRead, toUi, uiRead, hostSelection, chatSent, timers, uiEvents>>

vars == <<parserVars, chatVars, pluginVars, colorVars, uiVars>>

(***************************************************************************)
(* Text.  A string is a sequence of lexemes: punctuation, string literals, *)
(* numbers, the literal null, bare words, a space and the newline.         *)
(***************************************************************************)
P(x) == <<"p", x>>
S(x) == <<"s", x>>
N(x) == <<"n", x>>
W(x) == <<"w", x>>
NullTok == <<"k", "null">>
SP == <<"ws", " ">>
NL == <<"ws", "\n">>
LB == P("{")
RB == P("}")
LK == P("[")
RK == P("]")
Colon == P(":")
Comma == P(",")

IsWs(tok) == tok[1] = "ws"

\* the text of a member "k": val
KV(k, val) == <<S(k), Colon>> \o val

RECURSIVE SkipWs(_, _)
\* the first index at or after i that holds no whitespace
SkipWs(toks, i) ==
    IF i <= Len(toks) /\ IsWs(toks[i]) THEN SkipWs(toks, i + 1) ELSE i

\* String.prototype.trim: the string without leading and trailing whitespace
RECURSIVE TrimRight(_)
TrimRight(toks) ==
    IF toks # <<>> /\ IsWs(toks[Len(toks)])
    THEN TrimRight(SubSeq(toks, 1, Len(toks) - 1))
    ELSE toks

Trim(toks) ==
    LET i == SkipWs(toks, 1)
    IN TrimRight(SubSeq(toks, i, Len(toks)))

RECURSIVE SplitFrom(_, _, _)
\* String.prototype.split('\n'): cur holds the line being read
SplitFrom(toks, i, cur) ==
    IF i > Len(toks) THEN <<cur>>
    ELSE IF toks[i] = NL THEN <<cur>> \o SplitFrom(toks, i + 1, <<>>)
    ELSE SplitFrom(toks, i + 1, Append(cur, toks[i]))

Split(toks) == SplitFrom(toks, 1, <<>>)

RECURSIVE JoinLines(_)
\* the lines joined by newlines
JoinLines(ls) ==
    IF ls = <<>> THEN <<>>
    ELSE IF Len(ls) = 1 THEN ls[1]
    ELSE ls[1] \o <<NL>> \o JoinLines(Tail(ls))

(***************************************************************************)
(* JSON values and JSON.parse.                                             *)
(***************************************************************************)
JNull == [t |-> "null", v |-> <<>>]
JUndef == [t |-> "undef", v |-> <<>>]
JNum(x) == [t |-> "num", v |-> <<x>>]
JStr(x) == [t |-> "str", v |-> <<x>>]
JArr(xs) == [t |-> "arr", v |-> xs]
JObj(kvs) == [t |-> "obj", v |-> kvs]

ParseFail == [ok |-> FALSE, val |-> JUndef, next |-> 0]

RECURSIVE ParseValue(_, _), ParseElements(_, _, _), ParseMembers(_, _, _)
\* one JSON value starting at token i (no leading whitespace)
ParseValue(toks, i) ==
    IF i > Len(toks) THEN ParseFail
    ELSE LET tok == toks[i] IN
         IF tok = NullTok THEN [ok |-> TRUE, val |-> JNull, next |-> i + 1]
         ELSE IF tok[1] = "n" THEN [ok |-> TRUE, val |-> JNum(tok[2]), next |-> i + 1]
         ELSE IF tok[1] = "s" THEN [ok |-> TRUE, val |-> JStr(tok[2]), next |-> i + 1]
         ELSE IF tok = LK THEN
              LET j == SkipWs(toks, i + 1) IN
              IF j <= Len(toks) /\ toks[j] = RK
              THEN [ok |-> TRUE, val |-> JArr(<<>>), next |-> j + 1]
              ELSE ParseElements(toks, j, <<>>)
         ELSE IF tok = LB THEN
              LET j == SkipWs(toks, i + 1) IN
              IF j <= Len(toks) /\ toks[j] = RB
              THEN [ok |-> TRUE, val |-> JObj(<<>>), next |-> j + 1]
              ELSE ParseMembers(toks, j, <<>>)
         ELSE ParseFail

\* the elements of an array after '[' or ',', up to and including ']'
ParseElements(toks, i, acc) ==
    LET r == ParseValue(toks, i) IN
    IF ~r.ok THEN ParseFail
    ELSE LET j == SkipWs(toks, r.next) IN
         IF j > Len(toks) THEN ParseFail
         ELSE IF toks[j] = RK
              THEN [ok |-> TRUE, val |-> JArr(Append(acc, r.val)), next |-> j + 1]
         ELSE IF toks[j] = Comma
              THEN ParseElements(toks, SkipWs(toks, j + 1), Append(acc, r.val))
         ELSE ParseFail

\* the members of an object after '{' or ',', up to and including '}'
ParseMembers(toks, i, acc) ==
    IF i > Len(toks) \/ toks[i][1] # "s" THEN ParseFail
    ELSE LET c == SkipWs(toks, i + 1) IN
         IF c > Len(toks) \/ toks[c] # Colon THEN ParseFail
         ELSE LET r == ParseValue(toks, SkipWs(toks, c + 1)) IN
              IF ~r.ok THEN ParseFail
              ELSE LET j == SkipWs(toks, r.next)
                       kvs == Append(acc, <<toks[i][2], r.val>>)
                   IN IF j > Len(toks) THEN ParseFail
                      ELSE IF toks[j] = RB
                           THEN [ok |-> TRUE, val |-> JObj(kvs), next |-> j + 1]
                      ELSE IF toks[j] = Comma
                           THEN ParseMembers(toks, SkipWs(toks, j + 1), kvs)
                      ELSE ParseFail

\* JSON.parse: ok = FALSE stands for the SyntaxError it throws
JSONParse(toks) ==
    LET r == ParseValue(toks, SkipWs(toks, 1)) IN
    IF r.ok /\ SkipWs(toks, r.next) > Len(toks)
    THEN [ok |-> TRUE, val |-> r.val]
    ELSE [ok |-> FALSE, val |-> JUndef]

RECURSIVE GetFrom(_, _, _)
GetFrom(kvs, key, i) ==
    IF i = 0 THEN JUndef
    ELSE IF kvs[i][1] = key THEN kvs[i][2]
    ELSE GetFrom(kvs, key, i - 1)

\* value.key of a non-null value: the last member of that name, else undefined
Get(val, key) ==
    IF val.t = "obj" THEN GetFrom(val.v, key, Len(val.v)) ELSE JUndef

\* JavaScript truthiness of a parsed value
Truthy(val) ==
    CASE val.t = "undef" -> FALSE
      [] val.t = "null" -> FALSE
      [] val.t = "num" -> val.v # <<"0">>
      [] val.t = "str" -> val.v # <<"">>
      [] OTHER -> TRUE

(***************************************************************************)
(* Stream Chunk Parser: components/message.tsx.                            *)
(* An element is [kind, key, body]: kind "p" is a paragraph, "ColorTable"  *)
(* and "SelectionInfo" are the two tool components.                        *)
(***************************************************************************)
NoElement == <<>>

\* a paragraph that holds the trimmed line instead of the line
ParagraphTrimmed(line, idx) ==
    [kind |-> "p", key |-> <<"text", idx>>, body |-> [t |-> "raw", v |-> Trim(line)]]

\* the paragraph of lines 46-50: the line itself, under key text-<idx>
Paragraph(line, idx) ==
    [kind |-> "p", key |-> <<"text", idx>>, body |-> [t |-> "raw", v |-> line]]

\* renderChunk without the "if (chunk.data)" tests of lines 70 and 80
renderChunkNoDataTest(chunk, index) ==
    IF chunk.t \in {"null", "undef"} THEN [threw |-> TRUE, el |-> NoElement]
    ELSE LET type == Get(chunk, "type")
             name == Get(chunk, "name")
             data == Get(chunk, "data")
             body == Get(chunk, "content")
         IN
         IF type = JStr("text") THEN
              IF Truthy(body)
              THEN [threw |-> FALSE,
                    el |-> <<[kind |-> "p", key |-> <<"text", index>>, body |-> body]>>]
              ELSE [threw |-> FALSE, el |-> NoElement]
         ELSE IF type = JStr("tool-call") THEN
              IF name = JStr("getColorInfo")
              THEN [threw |-> FALSE,
                    el |-> <<[kind |-> "ColorTable", key |-> <<"tool", index>>, body |-> data]>>]
              ELSE IF name = JStr("getSelectionInfo")
              THEN [threw |-> FALSE,
                    el |-> <<[kind |-> "SelectionInfo", key |-> <<"tool", index>>, body |-> data]>>]
              ELSE [threw |-> FALSE, el |-> NoElement]
         ELSE [threw |-> FALSE, el |-> NoElement]

\* renderChunk(chunk, index).  threw: the TypeError of reading .type of null.
renderChunk(chunk, index) ==
    IF chunk.t \in {"null", "undef"} THEN [threw |-> TRUE, el |-> NoElement]
    ELSE LET type == Get(chunk, "type")
             name == Get(chunk, "name")
             data == Get(chunk, "data")
             body == Get(chunk, "content")
         IN
         IF type = JStr("text") THEN
              IF Truthy(body)
              THEN [threw |-> FALSE,
                    el |-> <<[kind |-> "p", key |-> <<"text", index>>, body |-> body]>>]
              ELSE [threw |-> FALSE, el |-> NoElement]
         ELSE IF type = JStr("tool-call") THEN
              IF name = JStr("getColorInfo") /\ Truthy(data)
              THEN [threw |-> FALSE,
                    el |-> <<[kind |-> "ColorTable", key |-> <<"tool", index>>, body |-> data]>>]
              ELSE IF name = JStr("getSelectionInfo") /\ Truthy(data)
              THEN [threw |-> FALSE,
                    el |-> <<[kind |-> "SelectionInfo", key |-> <<"tool", index>>, body |-> data]>>]
              ELSE [threw |-> FALSE, el |-> NoElement]
         ELSE [threw |-> FALSE, el |-> NoElement]

\* the callback with a catch that handles the SyntaxError of JSON.parse only
RenderLineParseCatchOnly(line, idx) ==
    IF Trim(line) = <<>> THEN [threw |-> FALSE, els |-> <<>>, idx |-> idx]
    ELSE LET pr == JSONParse(line) IN
         IF ~pr.ok
         THEN [threw |-> FALSE, els |-> <<Paragraph(line, idx)>>, idx |-> idx + 1]
         ELSE LET rc == renderChunk(pr.val, idx) IN
              IF rc.threw
              THEN [threw |-> TRUE, els |-> <<>>, idx |-> idx + 1]
              ELSE [threw |-> FALSE, els |-> rc.el, idx |-> idx + 1]

\* the forEach callback of lines 35-52 on one line, with currentIndex = idx
RenderLine(line, idx) ==
    IF Trim(line) = <<>> THEN [threw |-> FALSE, els |-> <<>>, idx |-> idx]
    ELSE LET pr == JSONParse(line) IN
         IF ~pr.ok
         THEN [threw |-> FALSE, els |-> <<Paragraph(line, idx)>>, idx |-> idx + 1]
         ELSE LET rc == renderChunk(pr.val, idx) IN
              IF rc.threw
              THEN [threw |-> FALSE, els |-> <<Paragraph(line, idx + 1)>>, idx |-> idx + 2]
              ELSE [threw |-> FALSE, els |-> rc.el, idx |-> idx + 1]

RECURSIVE RenderLines(_, _)
\* lines.forEach(...): the elements pushed, in order; an exception leaving the
\* callback ends the loop
RenderLines(lines, idx) ==
    IF lines = <<>> THEN [threw |-> FALSE, els |-> <<>>]
    ELSE LET r == RenderLine(Head(lines), idx) IN
         IF r.threw THEN [threw |-> TRUE, els |-> r.els]
         ELSE LET rest == RenderLines(Tail(lines), r.idx)
              IN [threw |-> rest.threw, els |-> r.els \o rest.els]

\* renderContent taking the single-chunk return only for a value with a type
renderContentTypeTested(text) ==
    LET whole == JSONParse(text)
        rc == renderChunk(whole.val, 0)
    IN
    IF whole.ok /\ ~rc.threw /\ Get(whole.val, "type") # JUndef
    THEN [threw |-> FALSE, els |-> rc.el, stage |-> "single"]
    ELSE LET r == RenderLines(Split(text), IF whole.ok THEN 1 ELSE 0)
         IN [threw |-> r.threw, els |-> r.els, stage |-> "lines"]

\* renderContent().  stage: "single" is the return of line 30, "lines" that of
\* line 55.
renderContent(text) ==
    LET whole == JSONParse(text)
        rc == renderChunk(whole.val, 0)
    IN
    IF whole.ok /\ ~rc.threw
    THEN [threw |-> FALSE, els |-> rc.el, stage |-> "single"]
    ELSE LET r == RenderLines(Split(text), IF whole.ok THEN 1 ELSE 0)
         IN [threw |-> r.threw, els |-> r.els, stage |-> "lines"]

(***************************************************************************)
(* The lines a message is made of.                                         *)
(***************************************************************************)
TextChunk(c) == <<LB>> \o KV("type", <<S("text")>>) \o <<Comma>> \o KV("content", <<S(c)>>) \o <<RB>>

ToolChunk(name, data) ==
    <<LB>> \o KV("type", <<S("tool-call")>>) \o <<Comma>> \o KV("name", <<S(name)>>)
           \o (IF data = <<>> THEN <<>> ELSE <<Comma>> \o KV("data", data)) \o <<RB>>

LineText(id) ==
    CASE id = "textHi" -> TextChunk("hi")
      [] id = "textIndented" -> <<SP>> \o TextChunk("hi")
      [] id = "textEmpty" -> TextChunk("")
      [] id = "color" -> ToolChunk("getColorInfo", <<LK, RK>>)
      [] id = "colorNoData" -> ToolChunk("getColorInfo", <<>>)
      [] id = "selection" -> ToolChunk("getSelectionInfo", <<LB, RB>>)
      [] id = "weather" -> ToolChunk("displayWeather", <<LK, RK>>)
      [] id = "image" -> <<LB>> \o KV("type", <<S("image")>>) \o <<RB>>
      [] id = "script" -> <<LB>> \o KV("actions", <<LK, RK>>) \o <<RB>>
      [] id = "null" -> <<NullTok>>
      [] id = "num" -> <<N("1")>>
      [] id = "str" -> <<S("hi")>>
      [] id = "arr" -> <<LK, N("1"), RK>>
      [] id = "prose" -> <<W("not"), SP, W("json")>>
      [] id = "padded" -> <<SP, W("hi"), SP>>
      [] id = "blank" -> <<>>
      [] id = "space" -> <<SP>>
      [] id = "open" -> <<LB>>
      [] id = "close" -> <<RB>>
      [] id = "typeMember" -> KV("type", <<S("text")>>) \o <<Comma>> \o KV("content", <<S("hi")>>)
      [] id = "actionsMember" -> <<SP, SP>> \o KV("actions", <<LK, RK>>)

LineIds ==
    {"textHi", "textIndented", "textEmpty", "color", "colorNoData", "selection",
     "weather", "image", "script", "null", "num", "str", "arr", "prose", "padded",
     "blank", "space", "open", "close", "typeMember", "actionsMember"}

Texts(ids) == [i \in 1..Len(ids) |-> LineText(ids[i])]

(***************************************************************************)
(* JSON.stringify(value, null, 2).                                         *)
(***************************************************************************)
Spaces(n) == [i \in 1..n |-> SP]

RECURSIVE Stringify(_, _), StringifyItems(_, _, _)
\* the text of val at nesting depth d
Stringify(val, d) ==
    CASE val.t = "null" -> <<NullTok>>
      [] val.t = "num" -> <<N(val.v[1])>>
      [] val.t = "str" -> <<S(val.v[1])>>
      [] val.t = "arr" ->
            IF val.v = <<>> THEN <<LK, RK>>
            ELSE <<LK, NL>> \o StringifyItems(val, d + 1, 1) \o <<NL>> \o Spaces(2 * d) \o <<RK>>
      [] val.t = "obj" ->
            IF val.v = <<>> THEN <<LB, RB>>
            ELSE <<LB, NL>> \o StringifyItems(val, d + 1, 1) \o <<NL>> \o Spaces(2 * d) \o <<RB>>

\* the items of an array or the members of an object from the i-th on
StringifyItems(val, d, i) ==
    LET item == IF val.t = "obj"
                THEN <<S(val.v[i][1]), Colon, SP>> \o Stringify(val.v[i][2], d)
                ELSE Stringify(val.v[i], d)
    IN Spaces(2 * d) \o item \o
       (IF i = Len(val.v) THEN <<>> ELSE <<Comma, NL>> \o StringifyItems(val, d, i + 1))

(***************************************************************************)
(* Chat endpoint: app/api/chat/route.ts.                                   *)
(* A text is a sequence of characters; a fixed passage of a prompt         *)
(* template is one element.  A message content is [def, text]: def = FALSE *)
(* is an absent content.                                                   *)
(***************************************************************************)
Absent == [def |-> FALSE, text |-> <<>>]
Text(t) == [def |-> TRUE, text |-> t]

\* !content
Falsy(c) == ~c.def \/ c.text = <<>>

LowerOf(ch) ==
    CASE ch = "C" -> "c"
      [] ch = "S" -> "s"
      [] OTHER -> ch

\* String.prototype.toLowerCase
ToLowerCase(t) == [i \in 1..Len(t) |-> LowerOf(t[i])]

\* String.prototype.includes
Includes(t, word) ==
    \E i \in 1..(Len(t) - Len(word) + 1) : SubSeq(t, i, i + Len(word) - 1) = word

ActionWords ==
    {<<"c", "l", "o", "n", "e">>, <<"c", "r", "e", "a", "t", "e">>,
     <<"c", "o", "n", "v", "e", "r", "t">>, <<"s", "e", "t">>, <<"m", "a", "k", "e">>}

SelectionWords ==
    {<<"s", "e", "l", "e", "c", "t", "e", "d">>,
     <<"s", "e", "l", "e", "c", "t", "i", "o", "n">>}

\* lines 111-115
IsActionRequest(prompt) == \E w \in ActionWords : Includes(ToLowerCase(prompt), w)

\* lines 145-146
MentionsSelection(prompt) == \E w \in SelectionWords : Includes(ToLowerCase(prompt), w)

IndexText(i) == <<"1", "2", "3">>[i]

\* the selection description of lines 152-195 for one item
ItemDescription(item, index) ==
    <<IndexText(index), ". ", item.name, " (", item.type, "):\n">>
    \o (IF item.hasSize THEN <<"   - Size: ", item.width, "px x ", item.height, "px\n">> ELSE <<>>)
    \o <<"\n">>

RECURSIVE ItemsDescription(_, _)
ItemsDescription(items, index) ==
    IF index > Len(items) THEN <<>>
    ELSE ItemDescription(items[index], index) \o ItemsDescription(items, index + 1)

SelectionDescription(sel) ==
    IF sel.count = 0 THEN <<"Nothing is currently selected in Figma.">>
    ELSE <<"Currently selected on the \"", sel.page, "\" page:\n\n">>
         \o ItemsDescription(sel.items, 1)

\* the last message sent as it came
BuildPromptVerbatim(prompt, sel) == prompt

\* the prompt of lines 110-202
BuildPrompt(prompt, sel) ==
    IF IsActionRequest(prompt)
    THEN <<"You are a script generator. Generate ONLY a JSON Automator script for this request: \"">>
         \o prompt \o <<"\" ... Do not add any text before or after the JSON.">>
    ELSE IF MentionsSelection(prompt) /\ sel.def
    THEN <<"Here's what is currently selected in Figma:\n\n">>
         \o SelectionDescription(sel)
         \o <<"\n\nPlease provide a clear, natural language description of the selection ...">>
    ELSE prompt

\* a mapping that gives role model to assistant messages only
HistoryRoleAssistantOnly(role) == IF role = "assistant" THEN "model" ELSE "user"

\* lines 205-208: the role given to a prior message
HistoryRole(role) == IF role = "user" THEN "user" ELSE "model"

\* lines 204-220: the chat history given to the provider
BuildHistory(messages, prompt) ==
    <<[role |-> "model", parts |-> Text(<<"systemPrompt">>)]>>
    \o [i \in 1..(Len(messages) - 1) |->
            [role |-> HistoryRole(messages[i].role), parts |-> messages[i].content]]
    \o <<[role |-> "user", parts |-> Text(prompt)]>>

\* messages[messages.length - 1], lines 104-108
MissingContentAbsentOnly(messages) ==
    Len(messages) = 0 \/ ~messages[Len(messages)].content.def

MissingContent(messages) ==
    Len(messages) = 0 \/ Falsy(messages[Len(messages)].content)

\* JSON.stringify({ error: message })
ErrorBody(message) == <<LB>> \o KV("error", <<S(message)>>) \o <<RB>>

\* line 107
BadRequestResponse ==
    [status |-> 400, body |-> <<W("No"), SP, W("message"), SP, W("content")>>]

\* lines 236-239
ProviderErrorResponse ==
    [status |-> 500, body |-> ErrorBody("Failed to generate response from Gemini API")]

\* the catch answers with an empty 200
HandlerEmptyResponse == [status |-> 200, body |-> <<>>]

\* lines 333-336
HandlerErrorResponse ==
    [status |-> 500, body |-> ErrorBody("Failed to process chat request")]

(***************************************************************************)
(* The ReadableStream controller (WHATWG streams): enqueue and close throw *)
(* a TypeError unless the stream is readable; error does nothing unless it *)
(* is readable.                                                            *)
(***************************************************************************)
NewController == [state |-> "readable", chunks |-> <<>>, calls |-> <<>>, threw |-> FALSE]

Enqueue(c, chunk) ==
    IF c.state = "readable"
    THEN [c EXCEPT !.chunks = Append(@, chunk), !.calls = Append(@, "enqueue")]
    ELSE [c EXCEPT !.calls = Append(@, "enqueue"), !.threw = TRUE]

Error(c) ==
    IF c.state = "readable"
    THEN [c EXCEPT !.state = "errored", !.chunks = <<>>, !.calls = Append(@, "error")]
    ELSE [c EXCEPT !.calls = Append(@, "error")]

Close(c) ==
    IF c.state = "readable"
    THEN [c EXCEPT !.state = "closed", !.calls = Append(@, "close")]
    ELSE [c EXCEPT !.calls = Append(@, "close"), !.threw = TRUE]

(***************************************************************************)
(* The action branch of the stream, lines 256-303.                         *)
(***************************************************************************)
Timestamps == {"1704464968000", "1704464968001"}

\* `script-${timestamp}` and `action-${timestamp}`
ScriptId(ts) == IF ts = "1704464968000" THEN "script-1704464968000" ELSE "script-1704464968001"
ActionId(ts) == IF ts = "1704464968000" THEN "action-1704464968000" ELSE "action-1704464968001"

\* value[0]
At0(val) ==
    IF val.t = "arr" /\ val.v # <<>> THEN val.v[1] ELSE JUndef

\* a || b
OrElse(a, b) == IF Truthy(a) THEN a ELSE b

ScriptObject(ts, name, description, cmdName, cmdTitle, cmdDescription) ==
    JObj(<< <<"id", JStr(ScriptId(ts))>>,
            <<"name", name>>,
            <<"description", description>>,
            <<"color", JStr("green")>>,
            <<"actions", JArr(<<
                JObj(<< <<"id", JStr(ActionId(ts))>>,
                        <<"command", JObj(<< <<"name", cmdName>>,
                                             <<"metadata", JObj(<<>>)>>,
                                             <<"title", cmdTitle>>,
                                             <<"description", cmdDescription>> >>)>>,
                        <<"actions", JArr(<<>>)>> >>) >>)>>,
            <<"createdAt", JNum(ts)>> >>)

\* the parsed output is emitted as the model returned it
CleanJsonAsParsed(parsed, ts) == parsed

\* lines 263-279
CleanJson(parsed, ts) ==
    LET cmd == Get(At0(Get(parsed, "actions")), "command") IN
    ScriptObject(ts,
        OrElse(Get(parsed, "name"), JStr("Automator Action")),
        OrElse(Get(parsed, "description"), JStr("Executes the requested action")),
        OrElse(Get(cmd, "name"), JStr("cloneFrame")),
        OrElse(Get(cmd, "title"), JStr("Execute Action")),
        OrElse(Get(cmd, "description"), JStr("Executes the requested action")))

\* lines 285-301
FallbackJson(ts) ==
    ScriptObject(ts, JStr("Clone Frame"), JStr("Clones the selected frame"),
        JStr("cloneFrame"), JStr("Clone Frame"), JStr("Creates a copy of the selected frame"))

\* fullResponse.match(/\{[\s\S]*\}/): from the first '{' to the last '}' after
\* it; <<>> is no match
JsonMatch(full) ==
    LET opens == {i \in 1..Len(full) : full[i] = LB}
        first == CHOOSE i \in opens : \A j \in opens : i <= j
        closes == {i \in 1..Len(full) : full[i] = RB /\ i > first}
        last == CHOOSE i \in closes : \A j \in closes : j <= i
    IN IF opens = {} \/ closes = {} THEN <<>>
       ELSE SubSeq(full, first, last)

\* lines 256-307 and 322, once the provider stream has been read to its end
FinishAction(c, full, ts) ==
    LET m == JsonMatch(full)
        parsed == JSONParse(m)
    IN IF m # <<>>
       THEN IF parsed.ok
            THEN Close(Enqueue(c, Stringify(CleanJson(parsed.val, ts), 0)))
            ELSE Close(Error(c))
       ELSE Close(Enqueue(c, Stringify(FallbackJson(ts), 0)))

(***************************************************************************)
(* Requests and provider output.                                           *)
(***************************************************************************)
PromptText(id) ==
    CASE id = "hi" -> <<"h", "i">>
      [] id = "Clone" -> <<"C", "l", "o", "n", "e", " ", "i", "t">>
      [] id = "reset" -> <<"r", "e", "s", "e", "t">>
      [] id = "Selected" -> <<"S", "e", "l", "e", "c", "t", "e", "d", "?">>
      [] id = "empty" -> <<>>

LastContents ==
    {Absent} \cup {Text(PromptText(id)) : id \in {"empty", "hi", "Clone", "reset", "Selected"}}

\* earlier messages: a user's action request and what followed it
PriorMessages ==
    {[role |-> "user", content |-> Text(PromptText("Clone"))]}
    \cup [role : {"assistant", "system", "tool"}, content : {Text(PromptText("hi"))}]
LastMessages == [role : {"user", "assistant"}, content : LastContents]

MessageLists ==
    {<<>>} \cup
    UNION {{prior \o <<last>> : prior \in [1..n -> PriorMessages], last \in LastMessages}
              : n \in 0..(MaxMsgs - 1)}

NoSelection == [def |-> FALSE, count |-> 0, page |-> "", items |-> <<>>]
Selections ==
    {NoSelection,
     [def |-> TRUE, count |-> 0, page |-> "Page 1", items |-> <<>>],
     [def |-> TRUE, count |-> 1, page |-> "Page 1",
      items |-> <<[name |-> "Frame 1", type |-> "FRAME", hasSize |-> TRUE,
                   width |-> "100", height |-> "50"]>>]}

\* a body that is not JSON, a body without messages, a body whose messages is
\* a number, and the well-formed bodies
Requests ==
    {[json |-> FALSE, hasMessages |-> FALSE, isArray |-> FALSE, messages |-> <<>>,
      selection |-> NoSelection],
     [json |-> TRUE, hasMessages |-> FALSE, isArray |-> FALSE, messages |-> <<>>,
      selection |-> NoSelection],
     [json |-> TRUE, hasMessages |-> TRUE, isArray |-> FALSE, messages |-> <<>>,
      selection |-> NoSelection]}
    \cup [json : {TRUE}, hasMessages : {TRUE}, isArray : {TRUE}, messages : MessageLists,
          selection : Selections]

\* chunk.text() of the chunks the provider may yield
ChunkText(id) ==
    CASE id = "prose" -> <<W("Sure"), SP>>
      [] id = "empty" -> <<>>
      [] id = "script" ->
            <<LB>> \o KV("id", <<S("mine")>>) \o <<Comma>>
                   \o KV("name", <<S("Make variant")>>) \o <<Comma>>
                   \o KV("color", <<S("red")>>) \o <<Comma>>
                   \o KV("createdAt", <<N("7")>>) \o <<Comma>>
                   \o KV("actions", <<LK, LB>>
                        \o KV("command", <<LB>> \o KV("name", <<S("createVariant")>>)
                               \o <<Comma>>
                               \o KV("metadata", <<LB>> \o KV("variantName", <<S("Big")>>)
                                      \o <<RB>>)
                               \o <<RB>>)
                        \o <<Comma>>
                        \o KV("actions", <<LK, LB>>
                               \o KV("command", <<LB>> \o KV("name", <<S("cloneFrame")>>)
                                      \o <<RB>>)
                               \o <<RB, RK>>)
                        \o <<RB, Comma, LB>>
                        \o KV("command", <<LB>> \o KV("name", <<S("cloneFrame")>>) \o <<RB>>)
                        \o <<RB, RK>>) \o <<RB>>
      [] id = "half1" -> <<LB>> \o KV("name", <<>>)
      [] id = "half2" -> <<S("Set"), RB>>
      [] id = "bad" -> <<LB, W("oops"), RB>>

ChunkIds == {"prose", "empty", "script", "half1", "half2", "bad"}

(***************************************************************************)
(* Figma plugin: plugin/code.ts and the plugin code of                     *)
(* components/color-table.tsx.  The document is the host's: nodes[i] is    *)
(* the node with id i, node 1 is the page, parent 0 is no parent.  members *)
(* is the set of member names the executor tests with `in`.                *)
(***************************************************************************)
Page == 1

SceneMembers == {"clone", "x", "y", "width", "height", "boundVariables"}
InstanceMembers == SceneMembers \cup {"setProperties"}

NodeRec(type, name, parent, members, x, y, width, height) ==
    [type |-> type, name |-> name, parent |-> parent, members |-> members,
     x |-> x, y |-> y, width |-> width, height |-> height,
     props |-> {}, bound |-> {}]

\* 'member' in node
In(member, node) == member \in node.members

\* 'width' in node && 'height' in node && 'x' in node && 'y' in node
HasBounds(node) == {"width", "height", "x", "y"} \subseteq node.members

\* a page with a frame that holds an instance, a component, a node that has
\* none of the tested members, and a component set with one component
BaseNodes ==
    <<NodeRec("PAGE", <<"Page 1">>, 0, {}, 0, 0, 0, 0),
      NodeRec("FRAME", <<"Card">>, Page, SceneMembers, 0, 0, 100, 50),
      NodeRec("INSTANCE", <<"Button">>, 2, InstanceMembers, 10, 10, 40, 20),
      NodeRec("COMPONENT", <<"Size", "=", "Small">>, Page, SceneMembers, 300, 0, 40, 20),
      NodeRec("OTHER", <<"Guide">>, Page, {}, 0, 0, 0, 0),
      NodeRec("COMPONENT_SET", <<"Tone">>, Page, SceneMembers, 500, 0, 60, 40),
      NodeRec("COMPONENT", <<"Tone", "=", "Dark">>, 6, SceneMembers, 510, 10, 40, 20)>>

Modes == {"light", "dark"}

VariableRec(name, value) == [name |-> name, valuesByMode |-> [m \in Modes |-> value]]

\* variableIds may name a variable that no longer exists (9)
BaseCollections ==
    <<[name |-> "Brand Colors", defaultModeId |-> "light", variableIds |-> <<9, 1, 2>>],
      [name |-> "Color Mode", defaultModeId |-> "dark", variableIds |-> <<3>>]>>

BaseVariables ==
    <<VariableRec("primary", "#111111"), VariableRec("width", "40"),
      VariableRec("secondary", "#222222")>>

Docs ==
    {[nodes |-> BaseNodes, collections |-> BaseCollections, variables |-> BaseVariables],
     [nodes |-> BaseNodes, collections |-> <<>>, variables |-> <<>>]}

\* figma.currentPage.selection
PageSelections ==
    {<<>>, <<2>>, <<3>>, <<4>>, <<5>>, <<7>>, <<2, 3>>, <<3, 2>>, <<5, 3>>}

\* the id the host gives the next node it creates
NewId(d) == Len(d.nodes) + 1

RECURSIVE IsAncestorOrSelf(_, _, _)
\* a is m or an ancestor of m
IsAncestorOrSelf(nodes, a, m) ==
    IF m = 0 THEN FALSE
    ELSE IF m = a THEN TRUE
    ELSE IsAncestorOrSelf(nodes, a, nodes[m].parent)

RECURSIVE SortedIds(_)
SortedIds(ids) ==
    IF ids = {} THEN <<>>
    ELSE LET least == CHOOSE i \in ids : \A j \in ids : i <= j
         IN <<least>> \o SortedIds(ids \ {least})

\* node.clone(): a copy of the node and of its descendants; the copy of the
\* node gets the next id and is parented under the page
CloneNode(d, node) ==
    LET ids == SortedIds({m \in 1..Len(d.nodes) : IsAncestorOrSelf(d.nodes, node, m)})
        rank(m) == CHOOSE k \in 1..Len(ids) : ids[k] = m
        copy(k) == [d.nodes[ids[k]] EXCEPT
                        !.parent = IF ids[k] = node THEN Page
                                   ELSE Len(d.nodes) + rank(d.nodes[ids[k]].parent)]
    IN [d EXCEPT !.nodes = @ \o [k \in 1..Len(ids) |-> copy(k)]]

\* figma.createComponent()
CreateComponent(d) ==
    [d EXCEPT !.nodes =
        Append(@, NodeRec("COMPONENT", <<"Component">>, Page, SceneMembers, 0, 0, 100, 100))]

\* node.resize(width, height)
Resize(d, node, width, height) ==
    [d EXCEPT !.nodes[node].width = width, !.nodes[node].height = height]

Min(a, b) == IF a <= b THEN a ELSE b
Max(a, b) == IF a >= b THEN a ELSE b

\* figma.combineAsVariants([a, b], parent): a component set under parent
\* that holds both components and spans their bounds
CombineAsVariants(d, a, b, parent) ==
    LET na == d.nodes[a]
        nb == d.nodes[b]
        x == Min(na.x, nb.x)
        y == Min(na.y, nb.y)
        set == NodeRec("COMPONENT_SET", <<"Component">>, parent, SceneMembers, x, y,
                       Max(na.x + na.width, nb.x + nb.width) - x,
                       Max(na.y + na.height, nb.y + nb.height) - y)
    IN [d EXCEPT !.nodes = Append([@ EXCEPT ![a].parent = NewId(d), ![b].parent = NewId(d)], set)]

\* node.setProperties({ [property]: value })
SetProperties(d, node, property, value) ==
    [d EXCEPT !.nodes[node].props = {pv \in @ : pv[1] # property} \cup {<<property, value>>}]

\* variable.setValueForMode(modeId, value)
SetValueForMode(d, variable, modeId, value) ==
    [d EXCEPT !.variables[variable].valuesByMode[modeId] = value]

\* node.setBoundVariable(field, variable)
SetBoundVariable(d, node, field, variable) ==
    [d EXCEPT !.nodes[node].bound = {fv \in @ : fv[1] # field} \cup {<<field, variable>>}]

\* name.split('=')[0]
BaseName(name) ==
    LET eqs == {i \in 1..Len(name) : name[i] = "="}
    IN IF eqs = {} THEN name
       ELSE SubSeq(name, 1, (CHOOSE i \in eqs : \A j \in eqs : i <= j) - 1)

RECURSIVE FindVariable(_, _, _, _)
\* find without the test of the name: the first variable of the list
FindVariableAny(d, variableIds, key, i) ==
    IF i > Len(variableIds) THEN 0
    ELSE IF variableIds[i] \in 1..Len(d.variables) THEN variableIds[i]
    ELSE FindVariable(d, variableIds, key, i + 1)

\* collection.variableIds.map(getVariableById).find(v => v?.name === key):
\* the id of the first variable of the list with that name, 0 for undefined
FindVariable(d, variableIds, key, i) ==
    IF i > Len(variableIds) THEN 0
    ELSE IF variableIds[i] \in 1..Len(d.variables) /\ d.variables[variableIds[i]].name = key
    THEN variableIds[i]
    ELSE FindVariable(d, variableIds, key, i + 1)

(***************************************************************************)
(* executeAutomatorAction.  The commands thread h = [doc, made, calls,     *)
(* threw, err, refuse]: the document, the ids of the nodes the action has  *)
(* had the host create, the number of host calls it has made, whether it   *)
(* has thrown and with what, and the number of the call the host refuses   *)
(* (0: none).                                                              *)
(***************************************************************************)
\* a call of the plugin API that changes the document to d unless refused
Call(h, d) ==
    IF h.threw THEN h
    ELSE IF h.calls + 1 = h.refuse
    THEN [h EXCEPT !.calls = @ + 1, !.threw = TRUE, !.err = "host error"]
    ELSE [h EXCEPT !.calls = @ + 1, !.doc = d]

\* a call that returns a new node
CallNew(h, d) ==
    IF h.threw THEN h
    ELSE IF h.calls + 1 = h.refuse
    THEN [h EXCEPT !.calls = @ + 1, !.threw = TRUE, !.err = "host error"]
    ELSE [h EXCEPT !.calls = @ + 1, !.doc = d, !.made = Append(@, NewId(h.doc))]

\* the k-th node the action has had created, and the latest
Made(h, k) == IF k \in 1..Len(h.made) THEN h.made[k] ELSE 0
LastMade(h) == Made(h, Len(h.made))

\* a throw of the plugin code itself
Throw(h, e) == IF h.threw THEN h ELSE [h EXCEPT !.threw = TRUE, !.err = e]

clone(h, node) == CallNew(h, CloneNode(h.doc, node))
createComponent(h) == CallNew(h, CreateComponent(h.doc))
resize(h, node, width, height) == Call(h, Resize(h.doc, node, width, height))
combineAsVariants(h, a, b, parent) == CallNew(h, CombineAsVariants(h.doc, a, b, parent))
setProperties(h, node, property, value) == Call(h, SetProperties(h.doc, node, property, value))
setValueForMode(h, variable, modeId, value) ==
    Call(h, SetValueForMode(h.doc, variable, modeId, value))
setBoundVariable(h, node, field, variable) ==
    Call(h, SetBoundVariable(h.doc, node, field, variable))

\* parent.appendChild(child): the host throws rather than make a node its
\* own descendant
appendChild(h, parent, child) ==
    IF h.threw THEN h
    ELSE IF h.calls + 1 = h.refuse
    THEN [h EXCEPT !.calls = @ + 1, !.threw = TRUE, !.err = "host error"]
    ELSE IF IsAncestorOrSelf(h.doc.nodes, child, parent)
    THEN [h EXCEPT !.calls = @ + 1, !.threw = TRUE, !.err = "cycle"]
    ELSE [h EXCEPT !.calls = @ + 1, !.doc.nodes[child].parent = parent]

\* node.x = x, node.y = y, node.name = name
SetX(h, node, x) == IF h.threw THEN h ELSE [h EXCEPT !.doc.nodes[node].x = x]
SetY(h, node, y) == IF h.threw THEN h ELSE [h EXCEPT !.doc.nodes[node].y = y]
SetName(h, node, name) == IF h.threw THEN h ELSE [h EXCEPT !.doc.nodes[node].name = name]

\* the clone is put at the right edge of the original, without the gap
PlaceCloneAtEdge(h, node) ==
    LET n == h.doc.nodes[node]
        placed == IF In("x", n) /\ In("width", n)
                  THEN SetX(h, LastMade(h), n.x + n.width)
                  ELSE h
    IN IF n.parent # 0 THEN appendChild(placed, n.parent, LastMade(h)) ELSE placed

\* lines 429-436, after node.clone()
PlaceClone(h, node) ==
    LET n == h.doc.nodes[node]
        placed == IF In("x", n) /\ In("width", n)
                  THEN SetX(h, LastMade(h), n.x + n.width + 100)
                  ELSE h
    IN IF n.parent # 0 THEN appendChild(placed, n.parent, LastMade(h)) ELSE placed

\* cloneFrame without the test of 'clone' in node
CloneFrameUntested(h, sel) ==
    IF Len(sel) = 0 THEN h
    ELSE PlaceClone(clone(h, sel[1]), sel[1])

\* case 'cloneFrame', code.ts lines 423-438
CloneFrame(h, sel) ==
    IF Len(sel) = 0 THEN h
    ELSE IF ~In("clone", h.doc.nodes[sel[1]]) THEN h
    ELSE PlaceClone(clone(h, sel[1]), sel[1])

\* lines 451-453 and 478-480, after figma.createComponent()
SizeVariant(h, node) ==
    LET n == h.doc.nodes[node] IN
    SetY(SetX(resize(h, Made(h, 1), n.width, n.height), Made(h, 1), n.x),
         Made(h, 1), IF n.type = "COMPONENT" THEN n.y + n.height + 100 ELSE n.y)

\* lines 456-459 and 483-486
CloneIntoVariant(h, node) ==
    IF In("clone", h.doc.nodes[node]) THEN clone(h, node) ELSE h

AppendClone(h, node) ==
    IF In("clone", h.doc.nodes[node]) THEN appendChild(h, Made(h, 1), LastMade(h)) ELSE h

\* variant.name = variantName
NameVariant(h, variantName) == SetName(h, Made(h, 1), <<variantName>>)

\* componentSet.name = node.name.split('=')[0]
NameSet(h, name) == SetName(h, LastMade(h), BaseName(name))

\* lines 464-471
JoinVariants(h, node) ==
    LET n == h.doc.nodes[node] IN
    IF n.type # "COMPONENT" \/ n.parent = 0 THEN h
    ELSE IF h.doc.nodes[n.parent].type = "COMPONENT_SET"
    THEN appendChild(h, n.parent, Made(h, 1))
    ELSE NameSet(combineAsVariants(h, node, Made(h, 1), n.parent), n.name)

\* case 'createVariant', code.ts lines 440-489
CreateVariant(h, sel, metadata) ==
    IF Len(sel) = 0 THEN h
    ELSE IF ~metadata.def THEN Throw(h, "TypeError")
    ELSE IF ~HasBounds(h.doc.nodes[sel[1]]) THEN createComponent(h)
    ELSE JoinVariants(
           NameVariant(
             AppendClone(
               CloneIntoVariant(SizeVariant(createComponent(h), sel[1]), sel[1]),
               sel[1]),
             metadata.variantName),
           sel[1])

RECURSIVE MoveIntoComponent(_, _, _)
\* selection.forEach of lines 501-506, from the i-th selected node on
MoveIntoComponent(h, sel, i) ==
    IF i > Len(sel) \/ h.threw THEN h
    ELSE LET parent == h.doc.nodes[sel[i]].parent IN
         MoveIntoComponent(
            IF parent # 0
            THEN appendChild(appendChild(h, parent, Made(h, 1)), Made(h, 1), sel[i])
            ELSE h,
            sel, i + 1)

\* lines 495-498, after figma.createComponent()
SizeComponent(h, node) ==
    LET n == h.doc.nodes[node] IN
    resize(SetY(SetX(h, Made(h, 1), n.x), Made(h, 1), n.y), Made(h, 1), n.width, n.height)

\* case 'convertToComponent', code.ts lines 491-509
ConvertToComponent(h, sel) ==
    IF Len(sel) = 0 THEN h
    ELSE IF ~HasBounds(h.doc.nodes[sel[1]]) THEN h
    ELSE MoveIntoComponent(SizeComponent(createComponent(h), sel[1]), sel, 1)

\* case 'setInstanceProperty', code.ts lines 511-519
SetInstanceProperty(h, sel, metadata) ==
    IF Len(sel) = 0 THEN h
    ELSE IF ~In("setProperties", h.doc.nodes[sel[1]]) THEN h
    ELSE IF ~metadata.def THEN Throw(h, "TypeError")
    ELSE setProperties(h, sel[1], metadata.property, metadata.value)

\* the variable is bound to the node whatever its type
BindToAnyNode(h, node, key, variable) ==
    setBoundVariable(h, node, key, variable)

\* lines 541-545
BindIfInstance(h, node, key, variable) ==
    IF h.doc.nodes[node].type = "INSTANCE"
    THEN setBoundVariable(h, node, key, variable)
    ELSE h

\* the callback of selection.forEach, lines 525-548
SetVariableOn(h, node, metadata) ==
    IF ~In("boundVariables", h.doc.nodes[node]) \/ h.doc.collections = <<>> THEN h
    ELSE LET collection == h.doc.collections[1]
             variable == FindVariable(h.doc, collection.variableIds, metadata.key, 1)
         IN IF variable = 0 THEN h
            ELSE BindIfInstance(
                    setValueForMode(h, variable, collection.defaultModeId, metadata.value),
                    node, metadata.key, variable)

RECURSIVE SetVariableOnAll(_, _, _, _)
\* selection.forEach of lines 524-549, from the i-th selected node on
SetVariableOnAll(h, sel, i, metadata) ==
    IF i > Len(sel) \/ h.threw THEN h
    ELSE SetVariableOnAll(SetVariableOn(h, sel[i], metadata), sel, i + 1, metadata)

\* case 'setVariable', code.ts lines 521-552
SetVariable(h, sel, metadata) ==
    IF Len(sel) = 0 THEN h
    ELSE IF ~metadata.def THEN Throw(h, "TypeError")
    ELSE SetVariableOnAll(h, sel, 1, metadata)

\* a switch whose default case throws
ApplyCommandDefaultThrows(command, sel, h) ==
    CASE command.name = "cloneFrame" -> CloneFrame(h, sel)
      [] command.name = "createVariant" -> CreateVariant(h, sel, command.metadata)
      [] command.name = "convertToComponent" -> ConvertToComponent(h, sel)
      [] command.name = "setInstanceProperty" -> SetInstanceProperty(h, sel, command.metadata)
      [] command.name = "setVariable" -> SetVariable(h, sel, command.metadata)
      [] OTHER -> Throw(h, "Unknown command")

\* switch (command.name), code.ts lines 422-553: no default case
ApplyCommand(command, sel, h) ==
    CASE command.name = "cloneFrame" -> CloneFrame(h, sel)
      [] command.name = "createVariant" -> CreateVariant(h, sel, command.metadata)
      [] command.name = "convertToComponent" -> ConvertToComponent(h, sel)
      [] command.name = "setInstanceProperty" -> SetInstanceProperty(h, sel, command.metadata)
      [] command.name = "setVariable" -> SetVariable(h, sel, command.metadata)
      [] OTHER -> h

\* no call of any action is refused
NoFault == [path |-> <<>>, call |-> 0]

\* the action at path starts on the document d
Begin(d, path, fault) ==
    [doc |-> d, made |-> <<>>, calls |-> 0, threw |-> FALSE, err |-> "",
     refuse |-> IF fault.path = path THEN fault.call ELSE 0]

\* the run st = [doc, log, threw, err, at] after the command of the action
\* at path ended as h: log lists the paths of the actions whose command has
\* been dispatched, a path being the indices that lead from the script to
\* the action, and at is the path of the action that threw
Dispatched(st, path, h) ==
    [doc |-> h.doc, log |-> Append(st.log, path), threw |-> h.threw, err |-> h.err,
     at |-> IF h.threw THEN path ELSE <<>>]

RECURSIVE executeAutomatorAction(_, _, _, _, _), ExecuteActions(_, _, _, _, _, _)

\* the nested actions before the command
executeAutomatorActionChildrenFirst(action, path, sel, fault, st) ==
    LET st1 == ExecuteActions(action.actions, path, 1, sel, fault, st)
    IN IF st1.threw THEN st1
       ELSE Dispatched(st1, path, ApplyCommand(action.command, sel, Begin(st1.doc, path, fault)))

\* code.ts lines 419-563: the command, then the nested actions unless the
\* command threw
executeAutomatorAction(action, path, sel, fault, st) ==
    ExecuteActions(action.actions, path, 1, sel, fault,
        Dispatched(st, path, ApplyCommand(action.command, sel, Begin(st.doc, path, fault))))

\* what a run keeps of an earlier throw
KeepThrow(st, st1) ==
    [st1 EXCEPT !.threw = st.threw \/ st1.threw,
                !.err = IF st.threw THEN st.err ELSE st1.err,
                !.at = IF st.threw THEN st.at ELSE st1.at]

\* the loop goes on to the next action after one has thrown
ExecuteActionsPastThrow(actions, path, i, sel, fault, st) ==
    IF i > Len(actions) THEN st
    ELSE ExecuteActions(actions, path, i + 1, sel, fault,
            KeepThrow(st, executeAutomatorAction(actions[i], Append(path, i), sel, fault,
                                                 [st EXCEPT !.threw = FALSE])))

\* for (const subAction of actions) await executeAutomatorAction(subAction,
\* selection), lines 559-562 and 581-583, from the i-th action on
ExecuteActions(actions, path, i, sel, fault, st) ==
    IF st.threw \/ i > Len(actions) THEN st
    ELSE ExecuteActions(actions, path, i + 1, sel, fault,
            executeAutomatorAction(actions[i], Append(path, i), sel, fault, st))

(***************************************************************************)
(* Scripts and the messages of the UI.                                     *)
(***************************************************************************)
Metadata(variantName, property, value, key) ==
    [def |-> TRUE, variantName |-> variantName, property |-> property,
     value |-> value, key |-> key]

\* metadata: {}
EmptyMetadata == Metadata("undefined", "undefined", "undefined", "undefined")

\* a command without metadata
NoMetadata == [EmptyMetadata EXCEPT !.def = FALSE]

Command(name, metadata) == [name |-> name, metadata |-> metadata]

Commands ==
    {Command("cloneFrame", EmptyMetadata),
     Command("createVariant", Metadata("Size=Large", "undefined", "undefined", "undefined")),
     Command("createVariant", NoMetadata),
     Command("convertToComponent", EmptyMetadata),
     Command("setInstanceProperty", Metadata("undefined", "label", "OK", "undefined")),
     Command("setVariable", Metadata("undefined", "undefined", "#ff0000", "primary")),
     Command("setVariable", Metadata("undefined", "undefined", "64", "width")),
     Command("setVariable", Metadata("undefined", "undefined", "#00ff00", "secondary")),
     Command("setVariable", Metadata("undefined", "undefined", "#0000ff", "missing")),
     Command("deleteAll", EmptyMetadata),
     Command("CloneFrame", EmptyMetadata)}

\* the commands of the scripts of more than two actions
TreeCommands == {Command("cloneFrame", EmptyMetadata), Command("deleteAll", EmptyMetadata)}

RECURSIVE ActionLists(_, _)
\* the lists of action trees of k actions in all
ActionLists(commands, k) ==
    IF k = 0 THEN {<<>>}
    ELSE UNION {{<<[command |-> c, actions |-> sub]>> \o rest :
                    c \in commands,
                    sub \in ActionLists(commands, j - 1),
                    rest \in ActionLists(commands, k - j)} : j \in 1..k}

\* script.actions: every tree shape of up to MaxActions actions, and every
\* command alone or with one nested action
Scripts ==
    UNION {ActionLists(TreeCommands, k) : k \in 0..MaxActions}
    \cup {<<[command |-> c, actions |-> sub]>> :
              c \in Commands, sub \in ActionLists(TreeCommands, 0) \cup ActionLists(TreeCommands, 1)}

RECURSIVE Paths(_, _)
\* the paths of the actions of a list whose own path is path
Paths(actions, path) ==
    UNION {{Append(path, i)} \cup Paths(actions[i].actions, Append(path, i))
              : i \in 1..Len(actions)}

\* the host refuses no call, or one of the first MaxFaultCall calls of one
\* action
Faults(actions) ==
    {NoFault} \cup [path : Paths(actions, <<>>), call : 1..MaxFaultCall]

SITE_URL == "https://site.example"

Origins == {SITE_URL, "https://elsewhere.example"}

\* { type: 'EXECUTE_AUTOMATOR', script, id: script.id }, and a message of a
\* type no variant handles
UiMessages ==
    [type : {"EXECUTE_AUTOMATOR"}, script : [actions : Scripts],
     id : {"script-1", "undefined"}, origin : {SITE_URL}]
    \cup [type : {"EXECUTE_AUTOMATOR"}, script : [actions : Scripts],
          id : {"script-1"}, origin : Origins \ {SITE_URL}]
    \cup [type : {"PING"}, script : {[actions |-> <<>>]}, id : {"undefined"}, origin : Origins]

\* the messages by which the UI asks for a snapshot or an answer
AskMessages == [type : {"GET_SELECTION", "UPDATE_DESIGN_SYSTEM", "query"}, origin : {SITE_URL}]

\* the design system plugin, the color table plugin and the automator plugin
SnapshotVariants == {"designSystem", "colorTable", "code"}

SnapshotSelections == {<<>>, <<3>>, <<5, 2>>}

\* the plugin of color-table.tsx handles every message; that of code.ts
\* lines 565-599 tests props.origin first
PluginVariants == {"colorTable", "code"}

Reply(type, error, id) == [type |-> type, error |-> error, id |-> id]

(***************************************************************************)
(* Color utility functions, plugin/code.ts lines 8-28.  A string is a      *)
(* sequence of characters.  A VariableValue is [t, ...] with t its typeof; *)
(* an object lists its members.  A channel of an RGB object is held as     *)
(* 510 times its value, so that color.r * 255 is half the field r.         *)
(***************************************************************************)
LowerLetters ==
    <<"a", "b", "c", "d", "e", "f", "g", "h", "i", "j", "k", "l", "m",
      "n", "o", "p", "q", "r", "s", "t", "u", "v", "w", "x", "y", "z">>
UpperLetters ==
    <<"A", "B", "C", "D", "E", "F", "G", "H", "I", "J", "K", "L", "M",
      "N", "O", "P", "Q", "R", "S", "T", "U", "V", "W", "X", "Y", "Z">>

\* String.prototype.toUpperCase
UpperOf(ch) ==
    IF \E i \in 1..Len(LowerLetters) : LowerLetters[i] = ch
    THEN UpperLetters[CHOOSE i \in 1..Len(LowerLetters) : LowerLetters[i] = ch]
    ELSE ch
ToUpperCase(t) == [i \in 1..Len(t) |-> UpperOf(t[i])]

HexDigits == <<"0", "1", "2", "3", "4", "5", "6", "7", "8", "9", "a", "b", "c", "d", "e", "f">>

RECURSIVE ToString16(_)
\* Number.prototype.toString(16) of an integer
ToString16(n) ==
    IF n < 0 THEN <<"-">> \o ToString16(0 - n)
    ELSE IF n < 16 THEN <<HexDigits[n + 1]>>
    ELSE ToString16(n \div 16) \o <<HexDigits[(n % 16) + 1]>>

\* Math.round(channel * 255): the nearest integer, a half rounded up
RoundChannel(k) == (k + 1) \div 2

\* lines 9-11
padHex(hex) == IF Len(hex) = 1 THEN <<"0">> \o hex ELSE hex

\* lines 13-18
rgbToHex(color) ==
    ToUpperCase(<<"#">> \o padHex(ToString16(RoundChannel(color.r)))
                       \o padHex(ToString16(RoundChannel(color.g)))
                       \o padHex(ToString16(RoundChannel(color.b))))

\* String.prototype.startsWith
StartsWith(t, prefix) == Len(t) >= Len(prefix) /\ SubSeq(t, 1, Len(prefix)) = prefix

\* typeof value === 'object' && 'r' in value
IsColorObject(value) == value.t = "object" /\ "r" \in value.members

\* lines 21-28
toHexColor(value) ==
    IF IsColorObject(value) THEN rgbToHex(value)
    ELSE IF value.t = "string" /\ StartsWith(value.s, <<"#">>) THEN ToUpperCase(value.s)
    ELSE <<"N", "/", "A">>

\* the values given to toHexColor: RGB and RGBA objects, an alias, strings,
\* a number, a boolean and null
RGB(r, g, b) == [t |-> "object", members |-> {"r", "g", "b"}, r |-> r, g |-> g, b |-> b]
RGBA(r, g, b) == [t |-> "object", members |-> {"r", "g", "b", "a"}, r |-> r, g |-> g, b |-> b]
VariableAlias(id) == [t |-> "object", members |-> {"type", "id"}, id |-> id]
StringValue(s) == [t |-> "string", s |-> s]

\* channel values 0, 1/510, 19/510, 31/510, 2/3, 1, and 2 and -1/255 out of range
Channels == {0, 1, 19, 31, 340, 510, 1020, 0 - 2}

ColorStrings ==
    {<<"#", "a", "b", "c">>, <<"#", "a", "a", "b", "b", "c", "c">>,
     <<"#", "1", "2", "A", "B", "E", "F">>, <<"#", "1", "2", "a", "b", "e", "f", "8", "0">>,
     <<"r", "e", "d">>, <<>>}

ColorValues ==
    {RGB(r, g, b) : r \in Channels, g \in Channels, b \in Channels}
    \cup {RGBA(r, r, 510) : r \in Channels}
    \cup {VariableAlias(1)}
    \cup {StringValue(s) : s \in ColorStrings}
    \cup {[t |-> "number"], [t |-> "boolean"], [t |-> "null"]}

(***************************************************************************)
(* The design system plugin, plugin/code.ts lines 1-313.  Its document     *)
(* holds collections [id, name, modes, defaultModeId, variableIds] and     *)
(* variables [id, name, description, resolvedType, variableCollectionId,   *)
(* modeIds, valuesByMode]; the id of a variable is its index, modeIds is   *)
(* Object.keys(valuesByMode), a name is its words and separators.          *)
(***************************************************************************)
DesignVariable(id, name, resolvedType, collection, modeIds, values) ==
    [id |-> id, name |-> name, description |-> "", resolvedType |-> resolvedType,
     variableCollectionId |-> collection, modeIds |-> modeIds,
     valuesByMode |-> [m \in {modeIds[i] : i \in 1..Len(modeIds)} |->
                          values[CHOOSE i \in 1..Len(modeIds) : modeIds[i] = m]]]

Mode(modeId, name) == [modeId |-> modeId, name |-> name]

BrandCollection ==
    [id |-> 1, name |-> "Brand Colors", modes |-> <<Mode("b1", "Default")>>,
     defaultModeId |-> "b1", variableIds |-> <<1, 2>>]
ModeCollection ==
    [id |-> 2, name |-> "Color Mode",
     modes |-> <<Mode("light", "Light"), Mode("dark", "Dark")>>,
     defaultModeId |-> "light", variableIds |-> <<3, 4, 5, 6>>]
ScreensCollection ==
    [id |-> 3, name |-> "Screens", modes |-> <<Mode("s1", "Default")>>,
     defaultModeId |-> "s1", variableIds |-> <<7, 8>>]

\* brand/primary holds a color and brand/link an alias to it; fg/default is
\* an alias in one mode and a color in the other; surface/base holds colors;
\* fg/accent holds the values a and b
DesignVariables(a, b) ==
    <<DesignVariable(1, <<"brand", "/", "primary">>, "COLOR", 1, <<"b1">>, <<RGB(510, 0, 31)>>),
      DesignVariable(2, <<"brand", "/", "link">>, "COLOR", 1, <<"b1">>, <<VariableAlias(1)>>),
      DesignVariable(3, <<"fg", "/", "default">>, "COLOR", 2, <<"light", "dark">>,
                     <<VariableAlias(1), RGB(0, 0, 0)>>),
      DesignVariable(4, <<"surface", "/", "base">>, "COLOR", 2, <<"light", "dark">>,
                     <<RGB(510, 510, 510), RGB(19, 19, 19)>>),
      DesignVariable(5, <<"fg", "/", "accent">>, "COLOR", 2, <<"light", "dark">>, <<a, b>>),
      DesignVariable(6, <<"radius">>, "FLOAT", 2, <<"light", "dark">>,
                     <<[t |-> "number"], [t |-> "number"]>>),
      DesignVariable(7, <<"Typography", "/", "body">>, "FLOAT", 3, <<"s1">>, <<[t |-> "number"]>>),
      DesignVariable(8, <<"grid">>, "FLOAT", 3, <<"s1">>, <<[t |-> "number"]>>)>>

\* the values fg/accent may hold: aliases to brand/primary, to brand/link,
\* to surface/base and to a variable that is not local, and a color
AccentValues ==
    {VariableAlias(1), VariableAlias(2), VariableAlias(4), VariableAlias(9), RGB(0, 340, 510)}

\* the values the user gives fg/accent
EditValues == {VariableAlias(1), VariableAlias(4)}

DesignDocs ==
    {[nodes |-> BaseNodes,
      collections |-> <<ModeCollection, BrandCollection, ScreensCollection>>,
      variables |-> DesignVariables(a, VariableAlias(4))] : a \in AccentValues}
    \cup {[nodes |-> BaseNodes,
           collections |-> <<ModeCollection, [BrandCollection EXCEPT !.name = "Brand"],
                             ScreensCollection>>,
           variables |-> DesignVariables(VariableAlias(1), VariableAlias(4))]}

RECURSIVE FindCollection(_, _, _)
\* collections.find(c => c.name === name): its index, 0 for undefined
FindCollection(collections, name, i) ==
    IF i > Len(collections) THEN 0
    ELSE IF collections[i].name = name THEN i
    ELSE FindCollection(collections, name, i + 1)

\* collections.find(c => c.name === name)?.id, 0 for undefined
CollectionId(collections, name) ==
    IF FindCollection(collections, name, 1) = 0 THEN 0
    ELSE collections[FindCollection(collections, name, 1)].id

\* variables.filter(v => v.variableCollectionId === id)
VariablesOf(variables, id) == SelectSeq(variables, LAMBDA v : v.variableCollectionId = id)

\* a map of every color variable whose first value is a color
BrandColorAnyCollection(colorVariables, collections, id) ==
    LET hits == {k \in 1..Len(colorVariables) :
                    /\ colorVariables[k].id = id
                    /\ IsColorObject(
                          colorVariables[k].valuesByMode[colorVariables[k].modeIds[1]])}
        variable == colorVariables[CHOOSE k \in hits : TRUE]
    IN IF hits = {} THEN [def |-> FALSE, value |-> <<>>, name |-> <<>>]
       ELSE [def |-> TRUE, name |-> variable.name,
             value |-> toHexColor(variable.valuesByMode[variable.modeIds[1]])]

\* lines 138-152: brandColorMap.get(id), the variables of the Brand Colors
\* collection whose first value is a color
BrandColor(colorVariables, collections, id) ==
    LET brandVars == VariablesOf(colorVariables, CollectionId(collections, "Brand Colors"))
        hits == {k \in 1..Len(brandVars) :
                    /\ brandVars[k].id = id
                    /\ IsColorObject(brandVars[k].valuesByMode[brandVars[k].modeIds[1]])}
        variable == brandVars[CHOOSE k \in hits : TRUE]
    IN IF hits = {} THEN [def |-> FALSE, value |-> <<>>, name |-> <<>>]
       ELSE [def |-> TRUE, name |-> variable.name,
             value |-> toHexColor(variable.valuesByMode[variable.modeIds[1]])]

\* lines 194-222: what is pushed for a variable in the mode modeId
ColorEntry(variable, modeId, colorVariables, collections) ==
    LET value == variable.valuesByMode[modeId] IN
    IF IsColorObject(value)
    THEN [name |-> variable.name, value |-> toHexColor(value),
          resolvedValue |-> Text(toHexColor(value)), description |-> variable.description]
    ELSE IF value.t = "object" /\ "id" \in value.members
            /\ BrandColor(colorVariables, collections, value.id).def
    THEN [name |-> variable.name,
          value |-> <<"→", " ">> \o BrandColor(colorVariables, collections, value.id).name,
          resolvedValue |-> Text(BrandColor(colorVariables, collections, value.id).value),
          description |-> variable.description]
    ELSE [name |-> variable.name, value |-> <<"N", "/", "A">>,
          resolvedValue |-> Absent, description |-> variable.description]

\* collectionVars.forEach of lines 184-222 for one mode
ModeEntries(collection, modeId, colorVariables, collections) ==
    LET collectionVars == VariablesOf(colorVariables, collection.id) IN
    [k \in 1..Len(collectionVars) |->
        ColorEntry(collectionVars[k], modeId, colorVariables, collections)]

RECURSIVE NamedModeEntries(_, _, _, _, _)
\* colorInfo.collections[collection.name][modeName]: the entries of the
\* modes of that name, from the i-th mode on
NamedModeEntries(collection, modeName, i, colorVariables, collections) ==
    IF i > Len(collection.modes) THEN <<>>
    ELSE (IF collection.modes[i].name = modeName
          THEN ModeEntries(collection, collection.modes[i].modeId, colorVariables, collections)
          ELSE <<>>)
         \o NamedModeEntries(collection, modeName, i + 1, colorVariables, collections)

\* the collections processColorVariables reports
IsColorCollection(collection) == collection.name \in {"Brand Colors", "Color Mode"}

\* the last collection of that name: a later one overwrites an earlier one
LastNamed(collections, name) ==
    collections[CHOOSE i \in 1..Len(collections) :
                   /\ collections[i].name = name
                   /\ \A j \in (i + 1)..Len(collections) : collections[j].name # name]

\* lines 126-228
processColorVariables(colorVariables, collections) ==
    LET names == {collections[i].name : i \in {j \in 1..Len(collections) :
                                                   IsColorCollection(collections[j])}}
    IN [modes |->
           [n \in names |->
               LET c == LastNamed(collections, n) IN
               [m \in {c.modes[i].modeId : i \in 1..Len(c.modes)} |->
                   c.modes[CHOOSE i \in 1..Len(c.modes) :
                              /\ c.modes[i].modeId = m
                              /\ \A j \in (i + 1)..Len(c.modes) : c.modes[j].modeId # m].name]],
        collections |->
           [n \in names |->
               [mn \in {LastNamed(collections, n).modes[i].name :
                           i \in 1..Len(LastNamed(collections, n).modes)} |->
                   NamedModeEntries(LastNamed(collections, n), mn, 1,
                                    colorVariables, collections)]]]

\* String.prototype.toLowerCase on a word of a variable name
LowerWord(w) ==
    CASE w = "Typography" -> "typography"
      [] w = "Spacing" -> "spacing"
      [] OTHER -> w

\* name.split('/')[0]
FirstPart(name) ==
    LET seps == {i \in 1..Len(name) : name[i] = "/"}
    IN IF seps = {} THEN name
       ELSE SubSeq(name, 1, (CHOOSE i \in seps : \A j \in seps : i <= j) - 1)

ScreenCategories == {"typography", "spacing", "sizing", "effects"}

\* lines 231-254
processScreenVariables(variables, collections) ==
    [category \in ScreenCategories |->
        LET hits == SelectSeq(variables,
                        LAMBDA v : [i \in 1..Len(FirstPart(v.name)) |->
                                       LowerWord(FirstPart(v.name)[i])] = <<category>>)
        IN [k \in 1..Len(hits) |->
               [name |-> hits[k].name, value |-> hits[k].valuesByMode[hits[k].modeIds[1]],
                description |-> hits[k].description, resolvedType |-> hits[k].resolvedType]]]

\* lines 81-124
getDesignSystemInfo(d) ==
    [variables |->
        [colors |->
            processColorVariables(
                SelectSeq(d.variables,
                    LAMBDA v : /\ v.variableCollectionId
                                    \in {CollectionId(d.collections, "Brand Colors"),
                                         CollectionId(d.collections, "Color Mode")}
                               /\ v.resolvedType = "COLOR"),
                d.collections),
         screens |->
            processScreenVariables(
                VariablesOf(d.variables, CollectionId(d.collections, "Screens")),
                d.collections)]]

\* the name of figma.currentPage
PageName == "Page 1"

\* code.ts lines 257-271
getSelectionInfo(d, sel) ==
    [count |-> Len(sel),
     items |-> [i \in 1..Len(sel) |->
                   [id |-> sel[i], name |-> d.nodes[sel[i]].name, type |-> d.nodes[sel[i]].type]],
     page |-> [id |-> Page, name |-> PageName]]

\* node.children.length
ChildCount(d, node) == Cardinality({n \in 1..Len(d.nodes) : d.nodes[n].parent = node})

\* color-table.tsx lines 202-242: has lists the optional members set
getNodeInfo(d, node) ==
    LET n == d.nodes[node] IN
    [id |-> node, name |-> n.name, type |-> n.type, visible |-> TRUE,
     has |-> (IF In("width", n) /\ In("height", n) THEN {"width", "height"} ELSE {})
             \cup (IF In("x", n) /\ In("y", n) THEN {"x", "y"} ELSE {})
             \cup (IF n.type = "INSTANCE" THEN {"componentProperties"} ELSE {})
             \cup (IF n.type \in {"FRAME", "COMPONENT", "INSTANCE", "COMPONENT_SET"}
                   THEN {"childCount"} ELSE {}),
     width |-> n.width, height |-> n.height, x |-> n.x, y |-> n.y,
     componentProperties |-> n.props, childCount |-> ChildCount(d, node)]

\* the selected nodes listed in the order of the document
getSelectionDetailsInDocumentOrder(d, sel) ==
    [count |-> Len(sel),
     items |-> [i \in 1..Len(sel) |->
                   getNodeInfo(d, SortedIds({sel[j] : j \in 1..Len(sel)})[i])],
     page |-> [id |-> Page, name |-> PageName, type |-> "PAGE",
               childCount |-> ChildCount(d, Page)]]

\* color-table.tsx lines 245-268
getSelectionDetails(d, sel) ==
    [count |-> Len(sel),
     items |-> [i \in 1..Len(sel) |-> getNodeInfo(d, sel[i])],
     page |-> [id |-> Page, name |-> PageName, type |-> "PAGE",
               childCount |-> ChildCount(d, Page)]]

(***************************************************************************)
(* Each specification runs one component; the others stay as constructed.  *)
(***************************************************************************)
ParserIdle ==
    /\ msgLines = <<>>
    /\ content = <<>>
    /\ rendered = FALSE
    /\ elements = <<>>
    /\ rcThrew = FALSE
    /\ rcStage = "none"

ChatIdle ==
    /\ req = [json |-> TRUE, hasMessages |-> TRUE, isArray |-> TRUE, messages |-> <<>>,
              selection |-> NoSelection]
    /\ cpc = "idle"
    /\ respStatus = 0
    /\ respBody = <<>>
    /\ isActionRequest = FALSE
    /\ provState = "none"
    /\ providerCalls = 0
    /\ sentContents = <<>>
    /\ timestamp = ""
    /\ chunksRead = 0
    /\ yielded = <<>>
    /\ fullResponse = <<>>
    /\ ctrl = [state |-> "none", chunks |-> <<>>, calls |-> <<>>, threw |-> FALSE]

PluginIdle ==
    /\ pluginVariant = "none"
    /\ doc = [nodes |-> <<>>, collections |-> <<>>, variables |-> <<>>]
    /\ pageSelection = <<>>
    /\ inbox = <<>>
    /\ outbox = <<>>
    /\ handled = <<>>
    /\ execLog = <<>>
    /\ execThrew = FALSE
    /\ execAt = <<>>

ColorIdle ==
    /\ colorValue = [t |-> "undefined"]
    /\ hexColor = Absent

UiIdle ==
    /\ uiVariant = "none"
    /\ uiMessages = <<>>
    /\ uiLoading = FALSE
    /\ uiSelection = [def |-> FALSE, sel |-> <<>>]
    /\ scriptToExecute = JUndef
    /\ posted = <<>>
    /\ pluginRead = 0
    /\ toUi = <<>>
    /\ uiRead = 0
    /\ hostSelection = <<>>
    /\ chatSent = <<>>
    /\ timers = <<>>
    /\ uiEvents = 0

(***************************************************************************)
(* The parser's operations.                                                *)
(***************************************************************************)
InitParser ==
    /\ msgLines \in {<<id>> : id \in LineIds}
    /\ content = LineText(msgLines[1])
    /\ rendered = FALSE
    /\ elements = <<>>
    /\ rcThrew = FALSE
    /\ rcStage = "none"
    /\ ChatIdle
    /\ PluginIdle
    /\ ColorIdle
    /\ UiIdle

\* the stream delivers one more line: message.content grows by "\n" + line
StreamAppend(id) ==
    /\ Len(msgLines) < MaxLines
    /\ msgLines' = Append(msgLines, id)
    /\ content' = content \o <<NL>> \o LineText(id)
    /\ rendered' = FALSE
    /\ elements' = <<>>
    /\ rcThrew' = FALSE
    /\ rcStage' = "none"
    /\ UNCHANGED <<chatVars, pluginVars, colorVars, uiVars>>

\* React renders the Message component: renderContent() runs on message.content
Render ==
    /\ ~rendered
    /\ LET r == renderContent(content) IN
        /\ elements' = r.els
        /\ rcThrew' = r.threw
        /\ rcStage' = r.stage
    /\ rendered' = TRUE
    /\ UNCHANGED <<msgLines, content>>
    /\ UNCHANGED <<chatVars, pluginVars, colorVars, uiVars>>

NextParser ==
    \/ \E id \in LineIds : StreamAppend(id)
    \/ Render

SpecParser == InitParser /\ [][NextParser]_vars

(***************************************************************************)
(* The chat endpoint's operations.                                         *)
(***************************************************************************)
InitChat ==
    /\ ParserIdle
    /\ PluginIdle
    /\ ColorIdle
    /\ UiIdle
    /\ req \in Requests
    /\ cpc = "received"
    /\ respStatus = 0
    /\ respBody = <<>>
    /\ isActionRequest = FALSE
    /\ provState = "none"
    /\ providerCalls = 0
    /\ sentContents = <<>>
    /\ timestamp = ""
    /\ chunksRead = 0
    /\ yielded = <<>>
    /\ fullResponse = <<>>
    /\ ctrl = [state |-> "none", chunks |-> <<>>, calls |-> <<>>, threw |-> FALSE]

Respond(r) ==
    /\ respStatus' = r.status
    /\ respBody' = r.body
    /\ cpc' = "done"

\* POST up to the await of generateContentStream, lines 102-233: req.json()
\* or messages.length throws into the catch of line 331, a missing content
\* (also that of messages[NaN] when messages is a number) is answered 400,
\* otherwise the history is built and the provider is called
PostReceive ==
    /\ cpc = "received"
    /\ IF ~req.json \/ ~req.hasMessages
       THEN /\ Respond(HandlerErrorResponse)
            /\ UNCHANGED <<isActionRequest, provState, providerCalls, sentContents>>
       ELSE IF ~req.isArray \/ MissingContent(req.messages)
       THEN /\ Respond(BadRequestResponse)
            /\ UNCHANGED <<isActionRequest, provState, providerCalls, sentContents>>
       ELSE LET prompt == req.messages[Len(req.messages)].content.text IN
            /\ isActionRequest' = IsActionRequest(prompt)
            /\ sentContents' = BuildHistory(req.messages, BuildPrompt(prompt, req.selection))
            /\ providerCalls' = providerCalls + 1
            /\ provState' = "pending"
            /\ cpc' = "awaitProvider"
            /\ UNCHANGED <<respStatus, respBody>>
    /\ UNCHANGED <<req, timestamp, chunksRead, yielded, fullResponse, ctrl>>
    /\ UNCHANGED <<parserVars, pluginVars, colorVars, uiVars>>

\* generateContentStream throws and is called once more
ProviderThrowsRetry ==
    /\ cpc = "awaitProvider"
    /\ providerCalls < 2
    /\ providerCalls' = providerCalls + 1
    /\ UNCHANGED <<req, cpc, respStatus, respBody, isActionRequest, provState, sentContents,
                   timestamp, chunksRead, yielded, fullResponse, ctrl>>
    /\ UNCHANGED <<parserVars, pluginVars, colorVars, uiVars>>

\* generateContentStream throws: the catch of lines 234-240
ProviderThrows ==
    /\ cpc = "awaitProvider"
    /\ provState' = "threw"
    /\ Respond(ProviderErrorResponse)
    /\ UNCHANGED <<req, isActionRequest, providerCalls, sentContents, timestamp,
                   chunksRead, yielded, fullResponse, ctrl>>
    /\ UNCHANGED <<parserVars, pluginVars, colorVars, uiVars>>

\* generateContentStream returns: the stream is constructed, start() runs to
\* its first await and the streaming Response is returned, lines 243-330
ProviderResponds ==
    /\ cpc = "awaitProvider"
    /\ provState' = "streaming"
    /\ \E ts \in Timestamps : timestamp' = ts
    /\ ctrl' = NewController
    /\ respStatus' = 200
    /\ cpc' = "streaming"
    /\ UNCHANGED <<req, respBody, isActionRequest, providerCalls, sentContents,
                   chunksRead, yielded, fullResponse>>
    /\ UNCHANGED <<parserVars, pluginVars, colorVars, uiVars>>

\* the provider stream yields a chunk: lines 252-254 or 311-316
StreamChunk(id) ==
    /\ cpc = "streaming"
    /\ chunksRead < MaxChunks
    /\ chunksRead' = chunksRead + 1
    /\ yielded' = Append(yielded, id)
    /\ IF isActionRequest
       THEN /\ fullResponse' = fullResponse \o ChunkText(id)
            /\ UNCHANGED ctrl
       ELSE /\ ctrl' = IF ChunkText(id) # <<>> THEN Enqueue(ctrl, ChunkText(id)) ELSE ctrl
            /\ UNCHANGED fullResponse
    /\ UNCHANGED <<req, cpc, respStatus, respBody, isActionRequest, provState,
                   providerCalls, sentContents, timestamp>>
    /\ UNCHANGED <<parserVars, pluginVars, colorVars, uiVars>>

\* reading the provider stream throws: the catch of lines 304-307 or 317-320,
\* then the close of line 322
StreamThrows ==
    /\ cpc = "streaming"
    /\ provState' = "failed"
    /\ ctrl' = Close(Error(ctrl))
    /\ cpc' = "done"
    /\ UNCHANGED <<req, respStatus, respBody, isActionRequest, providerCalls, sentContents,
                   timestamp, chunksRead, yielded, fullResponse>>
    /\ UNCHANGED <<parserVars, pluginVars, colorVars, uiVars>>

\* the provider stream ends: lines 256-307 for an action request, then the
\* close of line 322
StreamEnd ==
    /\ cpc = "streaming"
    /\ provState' = "ended"
    /\ ctrl' = IF isActionRequest THEN FinishAction(ctrl, fullResponse, timestamp)
               ELSE Close(ctrl)
    /\ cpc' = "done"
    /\ UNCHANGED <<req, respStatus, respBody, isActionRequest, providerCalls, sentContents,
                   timestamp, chunksRead, yielded, fullResponse>>
    /\ UNCHANGED <<parserVars, pluginVars, colorVars, uiVars>>

NextChat ==
    \/ PostReceive
    \/ ProviderThrows
    \/ ProviderResponds
    \/ \E id \in ChunkIds : StreamChunk(id)
    \/ StreamThrows
    \/ StreamEnd

SpecChat == InitChat /\ [][NextChat]_vars

(***************************************************************************)
(* toHexColor is applied to a value.                                       *)
(***************************************************************************)
InitColors ==
    /\ ParserIdle
    /\ ChatIdle
    /\ PluginIdle
    /\ UiIdle
    /\ colorValue \in ColorValues
    /\ hexColor = Absent

ToHexColor ==
    /\ ~hexColor.def
    /\ hexColor' = Text(toHexColor(colorValue))
    /\ UNCHANGED colorValue
    /\ UNCHANGED <<parserVars, chatVars, pluginVars, uiVars>>

NextColors == ToHexColor

SpecColors == InitColors /\ [][NextColors]_vars

(***************************************************************************)
(* The plugin's operations.                                                *)
(***************************************************************************)
InitPlugin ==
    /\ ParserIdle
    /\ ChatIdle
    /\ ColorIdle
    /\ UiIdle
    /\ pluginVariant \in PluginVariants
    /\ doc \in Docs
    /\ pageSelection \in PageSelections
    /\ inbox = <<>>
    /\ outbox = <<>>
    /\ handled = <<>>
    /\ execLog = <<>>
    /\ execThrew = FALSE
    /\ execAt = <<>>

\* the UI posts a message to the plugin: executeAutomatorScript of
\* app/page.tsx, or any other frame that posts to the plugin
UiPost(m) ==
    /\ inbox = <<>>
    /\ handled = <<>>
    /\ inbox' = <<m>>
    /\ UNCHANGED <<pluginVariant, doc, pageSelection, outbox, handled,
                   execLog, execThrew, execAt>>
    /\ UNCHANGED <<parserVars, chatVars, colorVars, uiVars>>

\* lines 584-596: the reply to a script whose run ended as st
PostReply(message, st) ==
    /\ doc' = st.doc
    /\ execLog' = st.log
    /\ execThrew' = st.threw
    /\ execAt' = st.at
    /\ outbox' = Append(outbox,
            IF st.threw THEN Reply("AUTOMATOR_ERROR", st.err, message.id)
            ELSE Reply("AUTOMATOR_COMPLETE", "", message.id))

\* a run that has dispatched nothing
NewRun(d) == [doc |-> d, log |-> <<>>, threw |-> FALSE, err |-> "", at |-> <<>>]

\* sendToUI(message) by a handler that leaves the document as it is
Post(message) ==
    /\ outbox' = Append(outbox, message)
    /\ UNCHANGED <<doc, execLog, execThrew, execAt>>

SelectionMessage(type, info) == [type |-> type, selection |-> info]

\* no message is dropped for its origin
DroppedNever(message) == FALSE

\* if (props.origin !== SITE_URL) return, code.ts lines 571-573: the
\* automator plugin alone tests the sender
Dropped(message) == pluginVariant = "code" /\ message.origin # SITE_URL

\* figma.ui.onmessage runs on the oldest message: color-table.tsx lines
\* 478-520, code.ts lines 301-403 and code.ts lines 570-599.  The awaits of the handler are on
\* promises already settled, so it runs to its end before the host delivers
\* another message or event.
OnMessage ==
    /\ inbox # <<>>
    /\ Head(inbox).type # "selectionchange"
    /\ LET message == Head(inbox) IN
        /\ inbox' = Tail(inbox)
        /\ handled' = Append(handled, [message |-> message, doc |-> doc,
                                       selection |-> pageSelection])
        /\ IF Dropped(message)
           THEN UNCHANGED <<doc, outbox, execLog, execThrew, execAt>>
           ELSE IF message.type = "EXECUTE_AUTOMATOR" /\ pluginVariant # "designSystem"
           THEN \E fault \in Faults(message.script.actions) :
                  PostReply(message,
                      ExecuteActions(message.script.actions, <<>>, 1, pageSelection, fault,
                                     NewRun(doc)))
           ELSE IF message.type = "GET_SELECTION" /\ pluginVariant = "colorTable"
           THEN Post(SelectionMessage("SELECTION_INFO", getSelectionDetails(doc, pageSelection)))
           ELSE IF message.type = "UPDATE_DESIGN_SYSTEM" /\ pluginVariant = "designSystem"
           THEN Post([type |-> "DESIGN_SYSTEM_UPDATED",
                      designSystem |-> getDesignSystemInfo(doc)])
           ELSE IF message.type = "query" /\ pluginVariant = "designSystem"
           THEN \E fetched \in BOOLEAN : Post([type |-> "QUERY_RESPONSE", fetched |-> fetched])
           ELSE UNCHANGED <<doc, outbox, execLog, execThrew, execAt>>
    /\ UNCHANGED <<pluginVariant, pageSelection>>
    /\ UNCHANGED <<parserVars, chatVars, colorVars, uiVars>>

NextPlugin ==
    \/ \E m \in UiMessages : UiPost(m)
    \/ OnMessage

SpecPlugin == InitPlugin /\ [][NextPlugin]_vars

(***************************************************************************)
(* The plugin's snapshots: the UI asks for the selection or the design     *)
(* system, the user changes the selection or a variable in the document.   *)
(***************************************************************************)
InitSnapshots ==
    /\ ParserIdle
    /\ ChatIdle
    /\ ColorIdle
    /\ UiIdle
    /\ pluginVariant \in SnapshotVariants
    /\ doc \in DesignDocs
    /\ pageSelection \in SnapshotSelections
    /\ inbox = <<>>
    /\ outbox = <<>>
    /\ handled = <<>>
    /\ execLog = <<>>
    /\ execThrew = FALSE
    /\ execAt = <<>>

\* what the host has queued for the plugin or given to it so far
Events == Len(inbox) + Len(handled)

\* the UI posts a request for a snapshot: page.tsx and the design system UI
UiAsk(m) ==
    /\ Events < MaxEvents
    /\ inbox' = Append(inbox, m)
    /\ UNCHANGED <<pluginVariant, doc, pageSelection, outbox, handled,
                   execLog, execThrew, execAt>>
    /\ UNCHANGED <<parserVars, chatVars, colorVars, uiVars>>

\* the user changes the selection; the host queues a selectionchange event
\* for a plugin that has registered a listener, and delivers it before the
\* selection changes again
SelectionChange(sel) ==
    /\ Events < MaxEvents
    /\ sel # pageSelection
    /\ \A i \in 1..Len(inbox) : inbox[i].type # "selectionchange"
    /\ pageSelection' = sel
    /\ inbox' = IF pluginVariant \in {"designSystem", "colorTable"}
                THEN Append(inbox, [type |-> "selectionchange", selection |-> sel])
                ELSE inbox
    /\ UNCHANGED <<pluginVariant, doc, outbox, handled, execLog, execThrew, execAt>>
    /\ UNCHANGED <<parserVars, chatVars, colorVars, uiVars>>

\* the user gives fg/accent another value in the light mode
EditVariable(value) ==
    /\ doc.variables[5].valuesByMode["light"] # value
    /\ doc' = SetValueForMode(doc, 5, "light", value)
    /\ UNCHANGED <<pluginVariant, pageSelection, inbox, outbox, handled,
                   execLog, execThrew, execAt>>
    /\ UNCHANGED <<parserVars, chatVars, colorVars, uiVars>>

\* a listener that posts nothing
OnSelectionChangeSilent ==
    /\ inbox # <<>>
    /\ Head(inbox).type = "selectionchange"
    /\ inbox' = Tail(inbox)
    /\ handled' = Append(handled, [message |-> Head(inbox), doc |-> doc,
                                   selection |-> pageSelection])
    /\ UNCHANGED <<doc, outbox, execLog, execThrew, execAt>>
    /\ UNCHANGED <<pluginVariant, pageSelection>>
    /\ UNCHANGED <<parserVars, chatVars, colorVars, uiVars>>

\* the listener of selectionchange: code.ts lines 291-298 and color-table.tsx
\* lines 468-476
OnSelectionChange ==
    /\ inbox # <<>>
    /\ Head(inbox).type = "selectionchange"
    /\ inbox' = Tail(inbox)
    /\ handled' = Append(handled, [message |-> Head(inbox), doc |-> doc,
                                   selection |-> pageSelection])
    /\ Post(SelectionMessage("SELECTION_CHANGED",
            IF pluginVariant = "colorTable" THEN getSelectionDetails(doc, pageSelection)
            ELSE getSelectionInfo(doc, pageSelection)))
    /\ UNCHANGED <<pluginVariant, pageSelection>>
    /\ UNCHANGED <<parserVars, chatVars, colorVars, uiVars>>

NextSnapshots ==
    \/ \E m \in AskMessages : UiAsk(m)
    \/ \E sel \in SnapshotSelections : SelectionChange(sel)
    \/ \E value \in EditValues : EditVariable(value)
    \/ OnMessage
    \/ OnSelectionChange

SpecSnapshots == InitSnapshots /\ [][NextSnapshots]_vars

(***************************************************************************)
(* The chat pages: app/page.tsx lines 32-150 ("auto": a script in the last *)
(* assistant message is executed by an effect) and the page of             *)
(* plugin/code.ts lines 631-731 ("confirm": the script waits for the       *)
(* Execute Script button).  useChat is the library's: a submission appends *)
(* the user's message and sends the request with the body the page was     *)
(* rendered with, every chunk of the response replaces messages with a     *)
(* list whose last message holds the text received so far, and onFinish    *)
(* is called with the finished message.  The auto page talks to the        *)
(* plugin of color-table.tsx, whose execution of a script is left to the   *)
(* plugin's own specification: here it only replies.                       *)
(***************************************************************************)
UiVariants == {"auto", "confirm"}

\* what the user types
UiInputs == {PromptText("hi"), PromptText("Selected")}

\* the texts of the chunks of a response
UiChunkIds == {"script", "prose", "half1"}

\* figma.currentPage.selection, by node ids; getSelectionInfo() is a
\* function of it and stands for itself in the messages
HostSelections == {<<>>, <<3>>}

UiMessage(role, text) == [role |-> role, content |-> text]

\* the last message of a list, undefined for an empty one
LastOf(messages) ==
    IF messages = <<>> THEN UiMessage("undefined", <<>>) ELSE messages[Len(messages)]

\* contentObj.actions?.[0]?.command?.name
HasCommandName(val) == Truthy(Get(Get(At0(Get(val, "actions")), "command"), "name"))

\* the effect of page.tsx lines 99-146 on the last message: the script it
\* hands to executeAutomatorScript, undefined if none.  The texts of
\* UiChunkIds hold no ```json fence, so the second pattern is the one that
\* can match.
EffectScript(last) ==
    IF last.role # "assistant" \/ last.content = <<>> THEN JUndef
    ELSE LET direct == JSONParse(last.content) IN
         IF direct.ok
         THEN IF HasCommandName(direct.val) THEN direct.val ELSE JUndef
         ELSE LET jsonMatch == JsonMatch(last.content)
                  extracted == JSONParse(jsonMatch)
              IN IF jsonMatch # <<>> /\ extracted.ok /\ HasCommandName(extracted.val)
                 THEN extracted.val
                 ELSE JUndef

\* possibleScript.actions && Array.isArray(possibleScript.actions) of the
\* parsed text, code.ts lines 638-641 and 709-712: the script, undefined if
\* the text is not one
ScriptOf(text) ==
    LET parsed == JSONParse(text) IN
    IF parsed.ok /\ Get(parsed.val, "actions").t = "arr" THEN parsed.val ELSE JUndef

\* the callback of setTimeout, code.ts lines 704-718, on the messages it
\* closed over
TimerScript(messages) ==
    LET lastMessage == LastOf(messages) IN
    IF lastMessage.role = "assistant" /\ lastMessage.content # <<>>
    THEN ScriptOf(lastMessage.content)
    ELSE JUndef

\* { type: 'EXECUTE_AUTOMATOR', script, id }; by and message tell which code
\* posted it and for which message of the list
Execute(script, id, by, message) ==
    [type |-> "EXECUTE_AUTOMATOR", script |-> script, id |-> id, by |-> by,
     message |-> message]

GetSelection == [type |-> "GET_SELECTION", script |-> JUndef, id |-> JUndef, by |-> "submit",
                 message |-> 0]

InitUi ==
    /\ ParserIdle
    /\ ChatIdle
    /\ PluginIdle
    /\ ColorIdle
    /\ uiVariant \in UiVariants
    /\ uiMessages = <<>>
    /\ uiLoading = FALSE
    /\ uiSelection = [def |-> FALSE, sel |-> <<>>]
    /\ scriptToExecute = JUndef
    /\ posted = <<>>
    /\ pluginRead = 0
    /\ toUi = <<>>
    /\ uiRead = 0
    /\ hostSelection \in HostSelections
    /\ chatSent = <<>>
    /\ timers = <<>>
    /\ uiEvents = 0

UiUnchangedOthers == UNCHANGED <<parserVars, chatVars, pluginVars, colorVars>>

\* handleSubmit of useChat: the user's message joins the list and the
\* request goes out with body.selection as rendered
HandleSubmit(input, get) ==
    /\ uiMessages' = Append(uiMessages, UiMessage("user", input))
    /\ chatSent' = Append(chatSent, [selection |-> uiSelection, get |-> get])
    /\ uiLoading' = TRUE

\* handleFormSubmit, page.tsx lines 61-73
Submit(input) ==
    /\ uiVariant = "auto"
    /\ ~uiLoading
    /\ uiEvents < MaxUiEvents
    /\ uiEvents' = uiEvents + 1
    /\ IF MentionsSelection(input)
       THEN /\ posted' = Append(posted, GetSelection)
            /\ HandleSubmit(input, Len(posted) + 1)
       ELSE /\ posted' = posted
            /\ HandleSubmit(input, 0)
    /\ UNCHANGED <<uiVariant, uiSelection, scriptToExecute, pluginRead, toUi, uiRead,
                   hostSelection, timers>>
    /\ UiUnchangedOthers

\* handleChatSubmit, code.ts lines 698-720: handleSubmit, and a timer whose
\* callback closes over the messages of this render
SubmitConfirm(input) ==
    /\ uiVariant = "confirm"
    /\ ~uiLoading
    /\ uiEvents < MaxUiEvents
    /\ uiEvents' = uiEvents + 1
    /\ HandleSubmit(input, 0)
    /\ timers' = Append(timers, uiMessages)
    /\ UNCHANGED <<uiVariant, uiSelection, scriptToExecute, posted, pluginRead, toUi, uiRead,
                   hostSelection>>
    /\ UiUnchangedOthers

\* the timer of handleChatSubmit fires, code.ts lines 704-719
TimerFires ==
    /\ timers # <<>>
    /\ timers' = Tail(timers)
    /\ LET script == TimerScript(Head(timers)) IN
       posted' = IF script # JUndef
                 THEN Append(posted, Execute(script, Get(script, "id"), "timer",
                                             Len(Head(timers))))
                 ELSE posted
    /\ UNCHANGED <<uiVariant, uiMessages, uiLoading, uiSelection, scriptToExecute, pluginRead,
                   toUi, uiRead, hostSelection, chatSent, uiEvents>>
    /\ UiUnchangedOthers

\* the text of the last message with one more chunk
Received(messages, id) ==
    IF LastOf(messages).role = "assistant"
    THEN [messages EXCEPT ![Len(messages)].content = @ \o ChunkText(id)]
    ELSE Append(messages, UiMessage("assistant", ChunkText(id)))

\* a chunk of the response arrives: useChat replaces messages, and on the
\* auto page the effect of page.tsx lines 99-146 runs on the new list
ResponseChunk(id) ==
    /\ uiLoading
    /\ uiEvents < MaxUiEvents
    /\ uiEvents' = uiEvents + 1
    /\ uiMessages' = Received(uiMessages, id)
    /\ LET script == EffectScript(LastOf(Received(uiMessages, id))) IN
       posted' = IF uiVariant = "auto" /\ script # JUndef
                 THEN Append(posted, Execute(script, Get(script, "id"), "effect",
                                             Len(Received(uiMessages, id))))
                 ELSE posted
    /\ UNCHANGED <<uiVariant, uiLoading, uiSelection, scriptToExecute, pluginRead, toUi,
                   uiRead, hostSelection, chatSent, timers>>
    /\ UiUnchangedOthers

\* the response ends: isLoading falls, and on the confirm page onFinish,
\* code.ts lines 636-646, keeps the message's script for the button
ResponseFinish ==
    /\ uiLoading
    /\ LastOf(uiMessages).role = "assistant"
    /\ uiEvents < MaxUiEvents
    /\ uiEvents' = uiEvents + 1
    /\ uiLoading' = FALSE
    /\ scriptToExecute' =
          IF uiVariant = "confirm" /\ ScriptOf(LastOf(uiMessages).content) # JUndef
          THEN ScriptOf(LastOf(uiMessages).content)
          ELSE scriptToExecute
    /\ UNCHANGED <<uiVariant, uiMessages, uiSelection, posted, pluginRead, toUi, uiRead,
                   hostSelection, chatSent, timers>>
    /\ UiUnchangedOthers

\* executeScript, code.ts lines 722-731: the click on Execute Script, a
\* button rendered while scriptToExecute is set
ClickExecute ==
    /\ uiVariant = "confirm"
    /\ scriptToExecute # JUndef
    /\ uiEvents < MaxUiEvents
    /\ uiEvents' = uiEvents + 1
    /\ \E now \in Timestamps :
          posted' = Append(posted, Execute(scriptToExecute, JStr(now), "click", 0))
    /\ scriptToExecute' = JUndef
    /\ UNCHANGED <<uiVariant, uiMessages, uiLoading, uiSelection, pluginRead, toUi, uiRead,
                   hostSelection, chatSent, timers>>
    /\ UiUnchangedOthers

\* the user changes the selection in the host: the selectionchange listener
\* of color-table.tsx lines 468-476 posts SELECTION_CHANGED
HostSelects(sel) ==
    /\ uiVariant = "auto"
    /\ sel # hostSelection
    /\ uiEvents < MaxUiEvents
    /\ uiEvents' = uiEvents + 1
    /\ hostSelection' = sel
    /\ toUi' = Append(toUi, [type |-> "SELECTION_CHANGED", selection |-> sel, get |-> 0])
    /\ UNCHANGED <<uiVariant, uiMessages, uiLoading, uiSelection, scriptToExecute, posted,
                   pluginRead, uiRead, chatSent, timers>>
    /\ UiUnchangedOthers

\* figma.ui.onmessage on the next message of the page: GET_SELECTION is
\* answered with the selection of that moment (color-table.tsx lines
\* 482-491), a script with AUTOMATOR_COMPLETE or AUTOMATOR_ERROR; get is
\* the place of the GET_SELECTION answered among the messages posted
PluginHandles ==
    /\ pluginRead < Len(posted)
    /\ pluginRead' = pluginRead + 1
    /\ LET message == posted[pluginRead + 1] IN
       IF message.type = "GET_SELECTION"
       THEN toUi' = Append(toUi, [type |-> "SELECTION_INFO", selection |-> hostSelection,
                                  get |-> pluginRead + 1])
       ELSE \E type \in {"AUTOMATOR_COMPLETE", "AUTOMATOR_ERROR"} :
               toUi' = Append(toUi, [type |-> type, selection |-> <<>>, get |-> 0])
    /\ UNCHANGED <<uiVariant, uiMessages, uiLoading, uiSelection, scriptToExecute, posted,
                   uiRead, hostSelection, chatSent, timers, uiEvents>>
    /\ UiUnchangedOthers

\* handleMessage, page.tsx lines 76-92 and code.ts lines 682-692
HandleMessage ==
    /\ uiRead < Len(toUi)
    /\ uiRead' = uiRead + 1
    /\ LET message == toUi[uiRead + 1] IN
       uiSelection' =
          IF uiVariant = "auto" /\ message.type \in {"SELECTION_INFO", "SELECTION_CHANGED"}
          THEN [def |-> TRUE, sel |-> message.selection]
          ELSE uiSelection
    /\ UNCHANGED <<uiVariant, uiMessages, uiLoading, scriptToExecute, posted, pluginRead,
                   toUi, hostSelection, chatSent, timers, uiEvents>>
    /\ UiUnchangedOthers

NextUi ==
    \/ \E input \in UiInputs : Submit(input)
    \/ \E input \in UiInputs : SubmitConfirm(input)
    \/ TimerFires
    \/ \E id \in UiChunkIds : ResponseChunk(id)
    \/ ResponseFinish
    \/ ClickExecute
    \/ \E sel \in HostSelections : HostSelects(sel)
    \/ PluginHandles
    \/ HandleMessage

SpecUi == InitUi /\ [][NextUi]_vars

(***************************************************************************)
(* Properties of the Stream Chunk Parser.                                  *)
(***************************************************************************)
\* an element without its React key
Unkeyed(els) == [i \in 1..Len(els) |-> [kind |-> els[i].kind, body |-> els[i].body]]

RawP(toks) == [kind |-> "p", body |-> [t |-> "raw", v |-> toks]]

\* lines that are a text chunk with content "hi"
TextLineIds == {"textHi", "textIndented"}
\* lines that are a getColorInfo tool-call with data []
ColorLineIds == {"color"}
\* lines that are not JSON
UnparsedLineIds == {"prose", "padded", "open", "close", "typeMember", "actionsMember"}
\* lines without a non-whitespace character
BlankLineIds == {"blank", "space"}
\* an unknown tool name, a known tool without data, a type that is neither
NoopLineIds == {"weather", "colorNoData", "image"}

HasNewline(text) == \E i \in 1..Len(text) : text[i] = NL

WholeParse == JSONParse(content)

\* the element a line of one of the three kinds of C2 must yield
ExpectedElement(id) ==
    IF id \in TextLineIds THEN [kind |-> "p", body |-> JStr("hi")]
    ELSE IF id \in ColorLineIds THEN [kind |-> "ColorTable", body |-> JArr(<<>>)]
    ELSE RawP(LineText(id))

RECURSIVE LinesYield(_, _)
\* els is, in order, at most one element per non-blank line of ids, and
\* exactly the expected element for a text, color or unparsed line
LinesYield(ids, els) ==
    IF ids = <<>> THEN els = <<>>
    ELSE LET id == Head(ids) IN
         IF id \in BlankLineIds THEN LinesYield(Tail(ids), els)
         ELSE IF id \in TextLineIds \cup ColorLineIds \cup UnparsedLineIds
              THEN /\ els # <<>>
                   /\ Head(els) = ExpectedElement(id)
                   /\ LinesYield(Tail(ids), Tail(els))
         ELSE \/ LinesYield(Tail(ids), els)
              \/ els # <<>> /\ LinesYield(Tail(ids), Tail(els))

RemoveAt(seq, i) == SubSeq(seq, 1, i - 1) \o SubSeq(seq, i + 1, Len(seq))

\* every non-blank line that is not JSON is among the elements as a paragraph
\* holding the line
UnparsedLinesEmitted ==
    \A i \in 1..Len(msgLines) :
        LET line == LineText(msgLines[i]) IN
        (Trim(line) # <<>> /\ ~JSONParse(line).ok)
            => \E j \in 1..Len(elements) : Unkeyed(elements)[j] = RawP(line)

\* C1: renderContent returns an element list, possibly empty, for every content
\* (empty, blank, JSON that is no object, mixtures of JSON lines and prose) and
\* never propagates an exception.
C1_NeverThrows ==
    rendered =>
        /\ rcThrew = FALSE
        /\ rcStage \in {"single", "lines"}
        /\ \A i \in 1..Len(elements) :
              elements[i].kind \in {"p", "ColorTable", "SelectionInfo"}

\* a line "null" was rendered: JSON.parse succeeded and renderChunk threw inside
C1_Witness ==
    /\ rendered
    /\ msgLines = <<"prose", "null", "num">>
    /\ Len(elements) = 2

C3_Original ==
    (rendered /\ ~HasNewline(content) /\ ~WholeParse.ok) =>
        Unkeyed(elements) = <<RawP(content)>>

\* C3 amended: every content without a newline that is not valid JSON and has a
\* non-whitespace character yields exactly one plain-text element holding the
\* content unchanged; a blank content yields no element.
C3_NonBlankPlainText ==
    (rendered /\ ~HasNewline(content) /\ ~WholeParse.ok) =>
        IF Trim(content) # <<>>
        THEN Unkeyed(elements) = <<RawP(content)>>
        ELSE elements = <<>>

C3_Witness ==
    /\ rendered
    /\ msgLines = <<"padded">>
    /\ Unkeyed(elements) = <<RawP(<<SP, W("hi"), SP>>)>>

WholeHasType == WholeParse.ok /\ Get(WholeParse.val, "type") # JUndef

\* C4 as stated: the single-chunk return is taken only when the whole content
\* decodes as a JSON value with a type field; otherwise (also for a JSON value
\* without a type field) the lines are processed and each non-blank line that
\* is not JSON is emitted as literal text.
C4_Original ==
    rendered =>
        /\ (rcStage = "single") <=> WholeHasType
        /\ ~WholeHasType => UnparsedLinesEmitted

\* C4 amended: the single-chunk return is taken exactly when the whole content
\* decodes as a JSON value other than null, with or without a type field (a
\* value without a type yields the empty list); the lines are processed only
\* when the whole content is not JSON or is null, and then each non-blank line
\* that is not JSON is emitted as literal text.
C4_SingleChunkWhenJSON ==
    rendered =>
        /\ (rcStage = "single") <=> (WholeParse.ok /\ WholeParse.val # JNull)
        /\ (rcStage = "single" /\ ~WholeHasType) => elements = <<>>
        /\ rcStage = "lines" => UnparsedLinesEmitted

\* a pretty-printed script: one JSON value over three lines, without a type
C4_Witness ==
    /\ rendered
    /\ msgLines = <<"open", "actionsMember", "close">>
    /\ rcStage = "single"
    /\ elements = <<>>

LastContentMissing ==
    /\ req.json
    /\ req.hasMessages
    /\ req.isArray
    /\ \/ req.messages = <<>>
       \/ ~req.messages[Len(req.messages)].content.def
       \/ req.messages[Len(req.messages)].content.text = <<>>

\* C6: a request whose messages array is empty, or whose last message has an
\* absent or empty content, is answered 400 and the provider is not called.
C6_MissingContent400 ==
    (cpc # "received" /\ LastContentMissing) =>
        /\ cpc = "done"
        /\ respStatus = 400
        /\ providerCalls = 0
        /\ provState = "none"
        /\ sentContents = <<>>

\* a request of two messages, the last with the empty string as content
C6_Witness ==
    /\ cpc = "done"
    /\ respStatus = 400
    /\ Len(req.messages) = 2
    /\ req.messages[2].content = Text(<<>>)

\* C7: when the provider call throws, the response is 500 with a JSON body
\* that has an error field, and the provider was called once and never again.
C7_ProviderThrows500 ==
    /\ providerCalls <= 1
    /\ provState = "threw" =>
          /\ cpc = "done"
          /\ respStatus = 500
          /\ JSONParse(respBody).ok
          /\ Get(JSONParse(respBody).val, "error") # JUndef
          /\ providerCalls = 1
          /\ ctrl.state = "none"

C7_Witness ==
    /\ provState = "threw"
    /\ respStatus = 500
    /\ providerCalls = 1

\* the buffered output of a finished action request holds no {...} block, or
\* one that is not JSON
NoUsableJson ==
    /\ cpc = "done"
    /\ isActionRequest
    /\ provState = "ended"
    /\ \/ JsonMatch(fullResponse) = <<>>
       \/ ~JSONParse(JsonMatch(fullResponse)).ok

\* C8: for an action request whose buffered output holds no {...} block, or
\* one that fails to parse, the default cloneFrame script is the single chunk
\* and the stream ends normally.
C8_FallbackOnBadOutput ==
    NoUsableJson =>
        /\ ctrl.chunks = <<Stringify(FallbackJson(timestamp), 0)>>
        /\ ctrl.state = "closed"
        /\ ~ctrl.threw

(***************************************************************************)
(* Properties of the plugin's script executor.                             *)
(***************************************************************************)
\* figma.ui.onmessage has run on an EXECUTE_AUTOMATOR message and did not
\* drop it
ScriptHandled ==
    /\ handled # <<>>
    /\ handled[1].message.type = "EXECUTE_AUTOMATOR"
    /\ ~(pluginVariant = "code" /\ handled[1].message.origin # SITE_URL)

\* the actions of the script handled
HandledActions == handled[1].message.script.actions

Range(seq) == {seq[i] : i \in 1..Len(seq)}

\* p is a proper prefix of q (an ancestor), or p turns to an earlier child
\* than q where they part
PathBefore(p, q) ==
    \/ Len(p) < Len(q) /\ SubSeq(q, 1, Len(p)) = p
    \/ \E k \in 1..Min(Len(p), Len(q)) :
          /\ SubSeq(p, 1, k - 1) = SubSeq(q, 1, k - 1)
          /\ p[k] < q[k]

\* C9: a handled EXECUTE_AUTOMATOR message gets exactly one reply, with the
\* id of the message: AUTOMATOR_COMPLETE when every action ran and none
\* threw, otherwise AUTOMATOR_ERROR with an error text; the action that threw
\* is the last one that ran.
C9_OneReplyAbortOnThrow ==
    /\ inbox # <<>> => outbox = <<>>
    /\ ScriptHandled =>
          /\ Len(outbox) = 1
          /\ outbox[1].id = handled[1].message.id
          /\ IF execThrew
             THEN /\ outbox[1].type = "AUTOMATOR_ERROR"
                  /\ outbox[1].error # ""
                  /\ execLog # <<>>
                  /\ execLog[Len(execLog)] = execAt
                  /\ \A i \in 1..(Len(execLog) - 1) : PathBefore(execLog[i], execAt)
             ELSE /\ outbox[1].type = "AUTOMATOR_COMPLETE"
                  /\ Range(execLog) = Paths(HandledActions, <<>>)

\* the host refused a call of the first of two top-level actions: the second
\* did not run and the reply is the error, with the id of the script
C9_Witness ==
    /\ ScriptHandled
    /\ Len(HandledActions) = 2
    /\ HandledActions[1].command.name = "cloneFrame"
    /\ execThrew
    /\ execLog = <<<<1>>>>
    /\ outbox = <<Reply("AUTOMATOR_ERROR", "host error", "script-1")>>

\* C10: the actions run in pre-order: an action before the actions nested in
\* it, the actions of a list in array order and each with all its nested
\* actions before the next; every action runs unless an earlier one threw,
\* whatever its parent's command did.
C10_PreOrder ==
    ScriptHandled =>
        /\ \A i, j \in 1..Len(execLog) : i < j => PathBefore(execLog[i], execLog[j])
        /\ Range(execLog) \subseteq Paths(HandledActions, <<>>)
        /\ \A p \in Paths(HandledActions, <<>>) :
              \/ p \in Range(execLog)
              \/ execThrew /\ PathBefore(execAt, p)

\* setInstanceProperty on a selected frame does nothing, and the cloneFrame
\* nested in it has run and made the clone
C10_Witness ==
    /\ ScriptHandled
    /\ pageSelection = <<2>>
    /\ Len(HandledActions) = 1
    /\ HandledActions[1].command.name = "setInstanceProperty"
    /\ Len(HandledActions[1].actions) = 1
    /\ HandledActions[1].actions[1].command.name = "cloneFrame"
    /\ execLog = <<<<1>>, <<1, 1>>>>
    /\ ~execThrew
    /\ Len(doc.nodes) = Len(handled[1].doc.nodes) + 2
    /\ doc.nodes[2] = handled[1].doc.nodes[2]

\* the five command names of the switch
KnownNames ==
    {"cloneFrame", "createVariant", "convertToComponent", "setInstanceProperty", "setVariable"}

RECURSIVE ActionAt(_, _)
\* the action at path p of a list of actions
ActionAt(actions, p) ==
    IF Len(p) = 1 THEN actions[p[1]]
    ELSE ActionAt(actions[p[1]].actions, Tail(p))

\* C11: an action whose command name is none of the five does not throw and
\* its first nested action runs; its command leaves the document as it is,
\* whatever the selection; a script of such actions only leaves the document
\* unchanged and is answered AUTOMATOR_COMPLETE.
C11_UnknownNameSkipped ==
    /\ \A c \in Commands, call \in 0..MaxFaultCall :
          LET h == [Begin(doc, <<1>>, NoFault) EXCEPT !.refuse = call]
          IN c.name \notin KnownNames => ApplyCommand(c, pageSelection, h) = h
    /\ ScriptHandled =>
          /\ \A p \in Range(execLog) :
                LET a == ActionAt(HandledActions, p)
                IN a.command.name \notin KnownNames =>
                      /\ execAt # p
                      /\ a.actions # <<>> => Append(p, 1) \in Range(execLog)
          /\ (\A p \in Paths(HandledActions, <<>>) :
                    ActionAt(HandledActions, p).command.name \notin KnownNames) =>
                /\ doc = handled[1].doc
                /\ outbox = <<Reply("AUTOMATOR_COMPLETE", "", handled[1].message.id)>>

\* a script of three actions with unknown names, two of them nested, has run
\* on a selected frame
C11_Witness ==
    /\ ScriptHandled
    /\ pageSelection = <<2>>
    /\ Len(HandledActions) = 1
    /\ \A p \in Paths(HandledActions, <<>>) :
          ActionAt(HandledActions, p).command.name = "deleteAll"
    /\ execLog = <<<<1>>, <<1, 1>>, <<1, 2>>>>
    /\ doc = handled[1].doc
    /\ outbox[1].type = "AUTOMATOR_COMPLETE"

\* the precondition of one of the five commands is unmet: nothing is
\* selected, or the first selected node lacks the member the command needs
PreconditionUnmet(command, sel, d) ==
    /\ command.name \in KnownNames
    /\ \/ sel = <<>>
       \/ command.name = "cloneFrame" /\ ~In("clone", d.nodes[sel[1]])
       \/ command.name = "setInstanceProperty" /\ ~In("setProperties", d.nodes[sel[1]])

\* C12: a command whose precondition is unmet leaves the document as it is
\* and does not throw, with or without metadata; a script of such actions
\* leaves the document unchanged and is answered AUTOMATOR_COMPLETE.
C12_UnmetPreconditionNoop ==
    /\ \A c \in Commands, call \in 0..MaxFaultCall :
          LET h == [Begin(doc, <<1>>, NoFault) EXCEPT !.refuse = call]
          IN PreconditionUnmet(c, pageSelection, doc) => ApplyCommand(c, pageSelection, h) = h
    /\ (/\ ScriptHandled
        /\ HandledActions # <<>>
        /\ \A p \in Paths(HandledActions, <<>>) :
              PreconditionUnmet(ActionAt(HandledActions, p).command, pageSelection,
                                handled[1].doc)) =>
          /\ doc = handled[1].doc
          /\ ~execThrew
          /\ Range(execLog) = Paths(HandledActions, <<>>)
          /\ outbox = <<Reply("AUTOMATOR_COMPLETE", "", handled[1].message.id)>>

\* cloneFrame, with a cloneFrame nested in it, has run on a selection whose
\* first node cannot be cloned and whose second node can
C12_Witness ==
    /\ ScriptHandled
    /\ pageSelection = <<5, 3>>
    /\ Len(HandledActions) = 1
    /\ HandledActions[1].command.name = "cloneFrame"
    /\ Len(HandledActions[1].actions) = 1
    /\ HandledActions[1].actions[1].command.name = "cloneFrame"
    /\ execLog = <<<<1>>, <<1, 1>>>>
    /\ doc = handled[1].doc
    /\ outbox[1].type = "AUTOMATOR_COMPLETE"

\* key is the name of no local variable of the document d
NamesNoVariable(key, d) == \A v \in 1..Len(d.variables) : d.variables[v].name # key

\* the nodes of d show the same bound variables in e
SameBoundVariables(d, e) ==
    \A n \in 1..Len(d.nodes) : n \in 1..Len(e.nodes) /\ e.nodes[n].bound = d.nodes[n].bound

\* C13: setVariable with a key that names no local variable changes no
\* variable's values and no node's bound variables and does not throw,
\* whatever is selected.
C13_UnknownKeyNoop ==
    /\ \A c \in Commands, call \in 0..MaxFaultCall :
          LET h == [Begin(doc, <<1>>, NoFault) EXCEPT !.refuse = call]
          IN (c.name = "setVariable" /\ c.metadata.def /\ NamesNoVariable(c.metadata.key, doc))
                => ApplyCommand(c, pageSelection, h) = h
    /\ (/\ ScriptHandled
        /\ HandledActions # <<>>
        /\ HandledActions[1].command.name = "setVariable"
        /\ HandledActions[1].command.metadata.def
        /\ NamesNoVariable(HandledActions[1].command.metadata.key, handled[1].doc)) =>
          /\ doc.variables = handled[1].doc.variables
          /\ SameBoundVariables(handled[1].doc, doc)
          /\ execAt # <<1>>

\* setVariable with the key of no variable has run, with an instance
\* selected, on a document that has variables
C13_Witness ==
    /\ ScriptHandled
    /\ pageSelection = <<3>>
    /\ Len(HandledActions) = 1
    /\ HandledActions[1].command.name = "setVariable"
    /\ HandledActions[1].command.metadata.def
    /\ NamesNoVariable(HandledActions[1].command.metadata.key, handled[1].doc)
    /\ handled[1].doc.collections # <<>>
    /\ doc = handled[1].doc
    /\ outbox[1].type = "AUTOMATOR_COMPLETE"

\* the history has been built and given to the provider
HistorySent == sentContents # <<>>

\* the prior messages of the request: all but the last
PriorCount == Len(req.messages) - 1

\* the first entry is the system instruction, the last one is the prompt
\* with role user, and the entries between them stand for the prior messages
HistoryFrame ==
    /\ Len(sentContents) = Len(req.messages) + 1
    /\ sentContents[1].parts = Text(<<"systemPrompt">>)
    /\ sentContents[Len(sentContents)].role = "user"
    /\ sentContents[Len(sentContents)].parts =
          Text(BuildPrompt(req.messages[Len(req.messages)].content.text, req.selection))

\* C14 as amended: prior messages of role user are sent with role user,
\* those of role assistant, system or tool with role model; the system
\* instruction is the first entry, with role model, and the current prompt
\* is the last entry, with role user.
C14_HistoryRoles ==
    HistorySent =>
       /\ HistoryFrame
       /\ sentContents[1].role = "model"
       /\ \A i \in 1..PriorCount :
             /\ req.messages[i].role = "user" => sentContents[i + 1].role = "user"
             /\ req.messages[i].role \in {"assistant", "system", "tool"}
                   => sentContents[i + 1].role = "model"

\* C14 as stated: prior messages of role system or tool are sent with role
\* user.
C14_Original ==
    HistorySent =>
       /\ HistoryFrame
       /\ \A i \in 1..PriorCount :
             /\ req.messages[i].role = "user" => sentContents[i + 1].role = "user"
             /\ req.messages[i].role = "assistant" => sentContents[i + 1].role = "model"
             /\ req.messages[i].role \in {"system", "tool"}
                   => sentContents[i + 1].role = "user"

\* a history with a prior tool message has been sent
C14_Witness ==
    /\ HistorySent
    /\ PriorCount = 1
    /\ req.messages[1].role = "tool"
    /\ sentContents[2].role = "model"
    /\ sentContents[3].role = "user"

\* the text of the request's last message, and of the history's last entry
LastContent == req.messages[Len(req.messages)].content.text
SentPrompt == sentContents[Len(sentContents)].parts.text

\* every prior message is in the history once, in the request's order and
\* with its content unchanged, after the system instruction alone
PriorVerbatim ==
    /\ Len(sentContents) = Len(req.messages) + 1
    /\ sentContents[1].parts = Text(<<"systemPrompt">>)
    /\ \A i \in 1..PriorCount : sentContents[i + 1].parts = req.messages[i].content

RECURSIVE NonEmptyTexts(_)
\* the texts of the chunks with the given ids that are not empty, in order
NonEmptyTexts(ids) ==
    IF ids = <<>> THEN <<>>
    ELSE (IF ChunkText(Head(ids)) # <<>> THEN <<ChunkText(Head(ids))>> ELSE <<>>)
         \o NonEmptyTexts(Tail(ids))

RECURSIVE Concat(_)
\* the concatenation of a sequence of texts
Concat(texts) == IF texts = <<>> THEN <<>> ELSE Head(texts) \o Concat(Tail(texts))

\* how many times enqueue was called on the controller c
Enqueues(c) == Cardinality({i \in 1..Len(c.calls) : c.calls[i] = "enqueue"})

\* an informational request: whenever the next provider chunk is awaited and
\* when the provider stream has ended, the chunks enqueued are the non-empty
\* chunks yielded so far, in order; after the end the stream is closed
InformationalStreamed ==
    (~isActionRequest /\ (cpc = "streaming" \/ provState = "ended")) =>
       /\ ctrl.chunks = NonEmptyTexts(yielded)
       /\ Concat(ctrl.chunks) = Concat([i \in 1..Len(yielded) |-> ChunkText(yielded[i])])
       /\ ctrl.state = IF provState = "ended" THEN "closed" ELSE "readable"
       /\ provState = "ended" => ctrl.calls[Len(ctrl.calls)] = "close"

\* an action request: nothing is enqueued while the provider stream is read
ActionBuffered ==
    (isActionRequest /\ cpc = "streaming") =>
       /\ Enqueues(ctrl) = 0
       /\ ctrl.chunks = <<>>
       /\ fullResponse = Concat([i \in 1..Len(yielded) |-> ChunkText(yielded[i])])

\* an action request: once the provider stream has ended one chunk is enqueued
ActionOneChunk ==
    (isActionRequest /\ provState = "ended") => Enqueues(ctrl) = 1 /\ Len(ctrl.chunks) = 1

\* C20: an informational request streams the provider's non-empty chunks as
\* they arrive and then closes the stream; an action request enqueues
\* nothing until the provider stream has been consumed and then enqueues
\* exactly one chunk.
C20_StreamedOrBuffered == InformationalStreamed /\ ActionBuffered /\ ActionOneChunk

\* C20 without the case of a block that does not parse: what the code does
\* for every other output of the provider
C20_ExceptUnparsedBlock ==
    /\ InformationalStreamed
    /\ ActionBuffered
    /\ (JsonMatch(fullResponse) # <<>> /\ ~JSONParse(JsonMatch(fullResponse)).ok) \/ ActionOneChunk

UpperHexDigits == {"0", "1", "2", "3", "4", "5", "6", "7", "8", "9", "A", "B", "C", "D", "E", "F"}

\* '#' followed by exactly six uppercase hexadecimal digits
IsSixDigitHex(s) == Len(s) = 7 /\ s[1] = "#" /\ \A i \in 2..7 : s[i] \in UpperHexDigits

\* the number a sequence of uppercase hexadecimal digits writes
HexDigitValue(ch) == CHOOSE n \in 0..15 : ToUpperCase(<<HexDigits[n + 1]>>) = <<ch>>
HexPairValue(s, i) == 16 * HexDigitValue(s[i]) + HexDigitValue(s[i + 1])

\* the channels of the RGB value scale and round to integers in 0..255
InRange(value) ==
    \A k \in {value.r, value.g, value.b} : \E n \in 0..255 : 2 * n - 1 <= k /\ k < 2 * n + 1

\* toHexColor has returned
HexReturned == hexColor.def

\* an RGB or RGBA value in range is written as '#' and two digits a channel
RgbSixDigits ==
    (HexReturned /\ IsColorObject(colorValue) /\ InRange(colorValue)) =>
       /\ IsSixDigitHex(hexColor.text)
       /\ \E n \in 0..255 : /\ 2 * n - 1 <= colorValue.r /\ colorValue.r < 2 * n + 1
                            /\ HexPairValue(hexColor.text, 2) = n
       /\ \E n \in 0..255 : /\ 2 * n - 1 <= colorValue.g /\ colorValue.g < 2 * n + 1
                            /\ HexPairValue(hexColor.text, 4) = n
       /\ \E n \in 0..255 : /\ 2 * n - 1 <= colorValue.b /\ colorValue.b < 2 * n + 1
                            /\ HexPairValue(hexColor.text, 6) = n

\* a string that starts with '#' is returned as a six-digit uppercase hex
HashStringSixDigits ==
    (HexReturned /\ colorValue.t = "string" /\ StartsWith(colorValue.s, <<"#">>)) =>
       IsSixDigitHex(hexColor.text)

HashStringUppercased ==
    (HexReturned /\ colorValue.t = "string" /\ StartsWith(colorValue.s, <<"#">>)) =>
       /\ Len(hexColor.text) = Len(colorValue.s)
       /\ hexColor.text = ToUpperCase(colorValue.s)

\* the calls of the handlers on messages and events of a type, and the
\* messages of a type the plugin has posted, both in order
HandledOf(type) == SelectSeq(handled, LAMBDA e : e.message.type = type)
PostedOf(type) == SelectSeq(outbox, LAMBDA m : m.type = type)

\* the ids of the items of a SelectionInfo
ItemIds(info) == [i \in 1..Len(info.items) |-> info.items[i].id]

\* C16: the color table plugin has answered every GET_SELECTION it was given
\* with one SELECTION_INFO, the design system plugin every
\* UPDATE_DESIGN_SYSTEM with one DESIGN_SYSTEM_UPDATED, each with the
\* snapshot of the document as it was when the message was handled; both
\* have posted one SELECTION_CHANGED, with the new selection, for every
\* selection change they were told of.
C16_OneAnswerEach ==
    /\ pluginVariant = "colorTable" =>
          /\ Len(PostedOf("SELECTION_INFO")) = Len(HandledOf("GET_SELECTION"))
          /\ \A k \in 1..Len(HandledOf("GET_SELECTION")) :
                PostedOf("SELECTION_INFO")[k].selection =
                   getSelectionDetails(HandledOf("GET_SELECTION")[k].doc,
                                       HandledOf("GET_SELECTION")[k].selection)
    /\ pluginVariant = "designSystem" =>
          /\ Len(PostedOf("DESIGN_SYSTEM_UPDATED")) = Len(HandledOf("UPDATE_DESIGN_SYSTEM"))
          /\ \A k \in 1..Len(HandledOf("UPDATE_DESIGN_SYSTEM")) :
                PostedOf("DESIGN_SYSTEM_UPDATED")[k].designSystem =
                   getDesignSystemInfo(HandledOf("UPDATE_DESIGN_SYSTEM")[k].doc)
    /\ pluginVariant \in {"colorTable", "designSystem"} =>
          /\ Len(PostedOf("SELECTION_CHANGED")) = Len(HandledOf("selectionchange"))
          /\ \A k \in 1..Len(HandledOf("selectionchange")) :
                ItemIds(PostedOf("SELECTION_CHANGED")[k].selection) =
                   HandledOf("selectionchange")[k].message.selection

\* the color table plugin has answered a GET_SELECTION, then the selection
\* has changed and the plugin has told the UI
C16_Witness ==
    /\ pluginVariant = "colorTable"
    /\ Len(handled) = 2
    /\ handled[1].message.type = "GET_SELECTION"
    /\ handled[2].message.type = "selectionchange"
    /\ Len(outbox) = 2
    /\ outbox[1].type = "SELECTION_INFO"
    /\ outbox[2].type = "SELECTION_CHANGED"
    /\ ItemIds(outbox[1].selection) = <<3>>
    /\ ItemIds(outbox[2].selection) = <<5, 2>>

\* a handler is given a request for a snapshot or a selection change
SnapshotStep ==
    /\ inbox # <<>>
    /\ inbox' = Tail(inbox)
    /\ Head(inbox).type \in {"GET_SELECTION", "UPDATE_DESIGN_SYSTEM", "selectionchange"}

\* the SelectionInfo a step has posted counts its items and lists the
\* selected nodes in the order of the selection
PostedSelectionInOrder ==
    (/\ Len(outbox') = Len(outbox) + 1
     /\ outbox'[Len(outbox')].type \in {"SELECTION_INFO", "SELECTION_CHANGED"}) =>
        /\ outbox'[Len(outbox')].selection.count = Len(outbox'[Len(outbox')].selection.items)
        /\ ItemIds(outbox'[Len(outbox')].selection) = pageSelection

\* C17: handling GET_SELECTION, UPDATE_DESIGN_SYSTEM or a selection change
\* leaves the nodes, the variables and the selection as they were, and the
\* SelectionInfo posted has count equal to the number of its items, which
\* are the selected nodes in selection order.
C17_SnapshotsReadOnly ==
    [][SnapshotStep =>
          /\ doc' = doc
          /\ pageSelection' = pageSelection
          /\ PostedSelectionInOrder]_vars

\* the color table plugin has answered GET_SELECTION with two nodes selected
\* against the order of the document
C17_Witness ==
    /\ pluginVariant = "colorTable"
    /\ pageSelection = <<5, 2>>
    /\ Len(handled) = 1
    /\ handled[1].message.type = "GET_SELECTION"
    /\ doc = handled[1].doc
    /\ Len(outbox) = 1
    /\ outbox[1].selection.count = 2
    /\ ItemIds(outbox[1].selection) = <<5, 2>>

\* the value is an alias
IsAlias(value) == value.t = "object" /\ "id" \in value.members

\* the variable with that id is a color variable of the collection named
\* Brand Colors whose first value is a color
IsBrandColor(d, id) ==
    /\ id \in 1..Len(d.variables)
    /\ d.variables[id].resolvedType = "COLOR"
    /\ \E i \in 1..Len(d.collections) :
          /\ d.collections[i].name = "Brand Colors"
          /\ d.collections[i].id = d.variables[id].variableCollectionId
    /\ IsColorObject(d.variables[id].valuesByMode[d.variables[id].modeIds[1]])

\* the values of the variable with that id are all colors, or all aliases
HoldsColor(d, id) ==
    /\ id \in 1..Len(d.variables)
    /\ \A m \in DOMAIN d.variables[id].valuesByMode :
          IsColorObject(d.variables[id].valuesByMode[m])
HoldsAlias(d, id) ==
    /\ id \in 1..Len(d.variables)
    /\ \A m \in DOMAIN d.variables[id].valuesByMode : IsAlias(d.variables[id].valuesByMode[m])

\* the color variables of the collection, in the order of the document
ColorVariablesOf(d, collection) ==
    SelectSeq(d.variables,
              LAMBDA v : v.variableCollectionId = collection.id /\ v.resolvedType = "COLOR")

\* Aliases(Holds): Holds(d, entry, id) holds of every entry of a snapshot posted in
\* DESIGN_SYSTEM_UPDATED that reports an alias to the variable id, d being
\* the document the snapshot was taken of
Aliases(Holds(_, _, _)) ==
    pluginVariant = "designSystem" =>
       \A k \in 1..Len(PostedOf("DESIGN_SYSTEM_UPDATED")) :
          LET d == HandledOf("UPDATE_DESIGN_SYSTEM")[k].doc
              colors == PostedOf("DESIGN_SYSTEM_UPDATED")[k].designSystem.variables.colors
          IN \A c \in {i \in 1..Len(d.collections) : IsColorCollection(d.collections[i])} :
             \A m \in 1..Len(d.collections[c].modes) :
             \A j \in 1..Len(ColorVariablesOf(d, d.collections[c])) :
                LET v == ColorVariablesOf(d, d.collections[c])[j]
                    value == v.valuesByMode[d.collections[c].modes[m].modeId]
                    entry == colors.collections[d.collections[c].name]
                                               [d.collections[c].modes[m].name][j]
                IN entry.name = v.name /\ (IsAlias(value) => Holds(d, entry, value.id))

Unresolved(entry) == entry.resolvedValue = Absent /\ entry.value = <<"N", "/", "A">>

\* C19 as amended: an alias to a color variable of the Brand Colors
\* collection whose first value is a color is reported with that color's hex
\* as resolvedValue; every other alias, to a variable of another collection
\* or to one whose value is an alias, is left unresolved.
C19_BrandAliasesResolved ==
    Aliases(LAMBDA d, entry, id :
               IF IsBrandColor(d, id)
               THEN /\ entry.resolvedValue =
                          Text(toHexColor(d.variables[id].valuesByMode[d.variables[id].modeIds[1]]))
                    /\ entry.value = <<"→", " ">> \o d.variables[id].name
               ELSE Unresolved(entry))

\* C19 as stated: an alias to a variable that holds a color is reported with
\* the hex of that color, in whichever collection the variable is, and an
\* alias to a variable that holds an alias is left unresolved.
C19_Original ==
    Aliases(LAMBDA d, entry, id :
               /\ HoldsColor(d, id) =>
                     /\ entry.resolvedValue.def
                     /\ \E m \in DOMAIN d.variables[id].valuesByMode :
                           entry.resolvedValue.text = toHexColor(d.variables[id].valuesByMode[m])
               /\ HoldsAlias(d, id) => Unresolved(entry))

\* a snapshot has been posted in which fg/accent is an alias to brand/primary
\* in the light mode, resolved, and an alias to surface/base in the dark
\* mode, unresolved
C19_Witness ==
    /\ pluginVariant = "designSystem"
    /\ Len(outbox) = 1
    /\ outbox[1].type = "DESIGN_SYSTEM_UPDATED"
    /\ handled[1].doc.variables[5].valuesByMode["light"] = VariableAlias(1)
    /\ handled[1].doc.variables[5].valuesByMode["dark"] = VariableAlias(4)
    /\ outbox[1].designSystem.variables.colors.collections["Color Mode"]["Light"][3].resolvedValue
          = Text(<<"#", "F", "F", "0", "0", "1", "0">>)
    /\ Unresolved(outbox[1].designSystem.variables.colors.collections["Color Mode"]["Dark"][3])

\* the script handled was one action of that command name, without nested
\* actions, and it ran to its end without a throw
RanAlone(name) ==
    /\ ScriptHandled
    /\ Len(HandledActions) = 1
    /\ HandledActions[1].command.name = name
    /\ HandledActions[1].actions = <<>>
    /\ ~execThrew

\* the nodes the document had before the script are as they were
OldNodesUnchanged ==
    /\ Len(doc.nodes) >= Len(handled[1].doc.nodes)
    /\ \A n \in 1..Len(handled[1].doc.nodes) : doc.nodes[n] = handled[1].doc.nodes[n]

\* the nodes the script has created, and those of them that are not inside
\* another node it created
NewNodes == (Len(handled[1].doc.nodes) + 1)..Len(doc.nodes)
NewRoots == {n \in NewNodes : doc.nodes[n].parent \notin NewNodes}

\* C21: cloneFrame on a selection whose first node has clone creates one
\* clone, a copy of the first selected node at x = original.x +
\* original.width + 100 under the original's parent, and leaves every node
\* the document had, the original and the other selected nodes among them,
\* as it was.
C21_CloneBesideOriginal ==
    (RanAlone("cloneFrame") /\ pageSelection # <<>>
       /\ In("clone", handled[1].doc.nodes[pageSelection[1]])) =>
       LET original == handled[1].doc.nodes[pageSelection[1]] IN
       /\ OldNodesUnchanged
       /\ Cardinality(NewRoots) = 1
       /\ \A c \in NewRoots :
             /\ doc.nodes[c] = [original EXCEPT !.x = original.x + original.width + 100]
             /\ doc.nodes[c].parent = original.parent
             /\ Cardinality(NewNodes) =
                   Cardinality({m \in 1..Len(handled[1].doc.nodes) :
                                   IsAncestorOrSelf(handled[1].doc.nodes, pageSelection[1], m)})

\* cloneFrame has run with the instance Button and its frame selected: the
\* clone of the instance is in the frame, 100 to the right of the instance
C21_Witness ==
    /\ RanAlone("cloneFrame")
    /\ pageSelection = <<3, 2>>
    /\ Len(doc.nodes) = Len(handled[1].doc.nodes) + 1
    /\ doc.nodes[Len(doc.nodes)].parent = 2
    /\ doc.nodes[Len(doc.nodes)].x = 150
    /\ doc.nodes[Len(doc.nodes)].type = "INSTANCE"

\* the script handled was one action of that command name, without nested
\* actions, and the host refused none of its calls
RanAloneUnrefused(name) ==
    /\ ScriptHandled
    /\ Len(HandledActions) = 1
    /\ HandledActions[1].command.name = name
    /\ HandledActions[1].actions = <<>>
    /\ outbox[1].error # "host error"

\* the script has made one node, a component at the bounds of the first
\* selected node, every selected node is a child of it, and nothing threw
OneComponentHoldsSelection ==
    /\ ~execThrew
    /\ Len(doc.nodes) = Len(handled[1].doc.nodes) + 1
    /\ LET component == doc.nodes[Len(doc.nodes)]
           first == handled[1].doc.nodes[pageSelection[1]]
       IN /\ component.type = "COMPONENT"
          /\ <<component.x, component.y, component.width, component.height>> =
                <<first.x, first.y, first.width, first.height>>
    /\ \A i \in 1..Len(pageSelection) : doc.nodes[pageSelection[i]].parent = Len(doc.nodes)

\* a selected node lay inside a node selected before it
SelectedInsideSelected ==
    \E i, j \in 1..Len(pageSelection) :
        i < j /\ IsAncestorOrSelf(handled[1].doc.nodes, pageSelection[i],
                                  handled[1].doc.nodes[pageSelection[j]].parent)

\* C22: convertToComponent on a non-empty selection creates exactly one
\* component with the position and size of the first selected node, and when
\* it finishes every selected node is a child of that component.
C22_ComponentHoldsSelection ==
    (RanAloneUnrefused("convertToComponent") /\ pageSelection # <<>>)
       => OneComponentHoldsSelection

\* what convertToComponent does keep: the claim holds when the first selected
\* node has x, y, width and height and no selected node lies inside one
\* selected before it
C22_ExceptInsideSelected ==
    (/\ RanAloneUnrefused("convertToComponent")
     /\ pageSelection # <<>>
     /\ HasBounds(handled[1].doc.nodes[pageSelection[1]])
     /\ ~SelectedInsideSelected)
       => OneComponentHoldsSelection

\* the frame Card and the Button inside it were selected: the command threw
\* with Card moved into the component and Button left in Card
C22_ThrowsOnNested ==
    /\ RanAloneUnrefused("convertToComponent")
    /\ pageSelection = <<2, 3>>
    /\ execThrew
    /\ outbox[1] = Reply("AUTOMATOR_ERROR", "cycle", handled[1].message.id)
    /\ doc.nodes[2].parent = Len(doc.nodes)
    /\ doc.nodes[3].parent = 2

\* the metadata of the one action of the script handled, and the document
\* the script began on
TheMetadata == HandledActions[1].command.metadata
DocBefore == handled[1].doc

\* setVariable has run alone, with metadata, on a non-empty selection of a
\* document that has a variable collection
RanSetVariable ==
    /\ RanAlone("setVariable")
    /\ TheMetadata.def
    /\ pageSelection # <<>>
    /\ DocBefore.collections # <<>>

\* the variable the key names in the first local collection, 0 if none
KeyInFirst == FindVariable(DocBefore, DocBefore.collections[1].variableIds, TheMetadata.key, 1)

\* the selected nodes that have boundVariables
Supporting == {n \in Range(pageSelection) : In("boundVariables", DocBefore.nodes[n])}

\* the variables of the document are as before, but for the value of v for
\* the default mode of the first collection
OnlyValueSet(v) ==
    doc.variables =
       [DocBefore.variables EXCEPT
           ![v].valuesByMode[DocBefore.collections[1].defaultModeId] = TheMetadata.value]

\* the nodes among ns, and no others, have gained the binding of v under the
\* key
BoundExactlyTo(ns, v) ==
    /\ Len(doc.nodes) = Len(DocBefore.nodes)
    /\ \A n \in 1..Len(doc.nodes) :
          doc.nodes[n] =
             IF n \in ns
             THEN [DocBefore.nodes[n] EXCEPT
                      !.bound = {fv \in @ : fv[1] # TheMetadata.key} \cup {<<TheMetadata.key, v>>}]
             ELSE DocBefore.nodes[n]

SelectedInstances == {n \in Range(pageSelection) : DocBefore.nodes[n].type = "INSTANCE"}

\* a key that names a variable of a later collection only changes nothing
LaterCollectionNotLookedUp ==
    (RanSetVariable /\ KeyInFirst = 0) => doc = DocBefore

\* C23 as stated: setVariable on a non-empty selection with a key naming a
\* variable of the first local collection sets the variable's value for the
\* collection's default mode and binds the variable to every selected
\* INSTANCE node and to no other node; a variable of a later collection only
\* is not looked up.
C23_Original ==
    /\ (RanSetVariable /\ KeyInFirst # 0) =>
          /\ OnlyValueSet(KeyInFirst)
          /\ BoundExactlyTo(SelectedInstances, KeyInFirst)
    /\ LaterCollectionNotLookedUp

\* C23: the same, when at least one selected node has boundVariables, the
\* nodes bound being the selected INSTANCE nodes that have boundVariables; a
\* selection of nodes without boundVariables leaves the document as it is.
C23_SetAndBoundToInstances ==
    /\ (RanSetVariable /\ KeyInFirst # 0) =>
          IF Supporting = {} THEN doc = DocBefore
          ELSE /\ OnlyValueSet(KeyInFirst)
               /\ BoundExactlyTo(SelectedInstances \cap Supporting, KeyInFirst)
    /\ LaterCollectionNotLookedUp

\* setVariable 'primary' has run with the instance Button and its frame
\* selected: the value is set for the mode light and Button alone is bound
C23_Witness ==
    /\ RanSetVariable
    /\ pageSelection = <<3, 2>>
    /\ TheMetadata.key = "primary"
    /\ KeyInFirst = 1
    /\ doc.variables[1].valuesByMode["light"] = TheMetadata.value
    /\ doc.variables[1].valuesByMode["dark"] = DocBefore.variables[1].valuesByMode["dark"]
    /\ doc.nodes[3].bound = {<<TheMetadata.key, 1>>}
    /\ doc.nodes[2].bound = {}

\* C25: the automator plugin drops a message whose origin is not SITE_URL,
\* whatever its type and script: the document stays as it was, no action is
\* dispatched and nothing is posted to the UI; a script that has been
\* executed came from SITE_URL.
C25_ForeignOriginDropped ==
    (pluginVariant = "code" /\ handled # <<>>) =>
       /\ handled[1].message.origin # SITE_URL =>
             /\ doc = handled[1].doc
             /\ outbox = <<>>
             /\ execLog = <<>>
             /\ ~execThrew
       /\ (execLog # <<>> \/ outbox # <<>> \/ doc # handled[1].doc) =>
             handled[1].message.origin = SITE_URL

\* the automator plugin has handled a cloneFrame script posted from another
\* origin while a frame was selected
C25_Witness ==
    /\ pluginVariant = "code"
    /\ handled # <<>>
    /\ inbox = <<>>
    /\ handled[1].message.origin # SITE_URL
    /\ handled[1].message.type = "EXECUTE_AUTOMATOR"
    /\ Len(handled[1].message.script.actions) = 1
    /\ handled[1].message.script.actions[1].command.name = "cloneFrame"
    /\ pageSelection = <<2>>
    /\ doc = handled[1].doc

\* C24: a request whose body is not JSON or has no messages is answered 500
\* with the JSON error body of the outer handler, a body whose messages is
\* not an array is answered with a status outside 200..299, and for none of
\* them is the provider called.
C24_NoMessagesNoProviderCall ==
    (~req.json \/ ~req.hasMessages \/ ~req.isArray) =>
       /\ providerCalls = 0
       /\ provState = "none"
       /\ sentContents = <<>>
       /\ cpc \in {"received", "done"}
       /\ cpc = "done" =>
             /\ respStatus \notin 200..299
             /\ (~req.json \/ ~req.hasMessages) =>
                   /\ respStatus = 500
                   /\ respBody = ErrorBody("Failed to process chat request")
                   /\ JSONParse(respBody).ok

\* a body without messages has been answered 500
C24_Witness ==
    /\ req.json
    /\ ~req.hasMessages
    /\ cpc = "done"
    /\ respStatus = 500
    /\ providerCalls = 0

\* the calls of close and error among the calls made on the controller
Finishers == {i \in 1..Len(ctrl.calls) : ctrl.calls[i] \in {"close", "error"}}

\* C28: on every path through the response stream the controller is
\* finished exactly once: close is not called on an errored controller,
\* nothing is enqueued after close or error, and when start() has returned
\* one call of close or error has been made.
C28_FinishedOnce ==
    /\ Cardinality(Finishers) <= 1
    /\ \A i \in Finishers : i = Len(ctrl.calls)
    /\ ~ctrl.threw
    /\ (cpc = "done" /\ provState \in {"ended", "failed"}) => Cardinality(Finishers) = 1

\* what the stream does keep: nothing is enqueued after close or error, and
\* the one call that follows another finisher is the close that follows an
\* error
C28_CloseAfterErrorOnly ==
    /\ \A i \in 1..Len(ctrl.calls) :
          ctrl.calls[i] = "enqueue" => \A j \in Finishers : i < j
    /\ \/ Cardinality(Finishers) <= 1 /\ ~ctrl.threw
       \/ /\ Len(ctrl.calls) >= 2
          /\ Finishers = {Len(ctrl.calls) - 1, Len(ctrl.calls)}
          /\ ctrl.calls[Len(ctrl.calls) - 1] = "error"
          /\ ctrl.calls[Len(ctrl.calls)] = "close"
          /\ ctrl.threw

\* reading the provider stream of an informational request has failed after
\* a chunk was enqueued: error, then close on the errored controller
C28_ClosedAfterError ==
    /\ ~isActionRequest
    /\ provState = "failed"
    /\ ctrl.calls = <<"enqueue", "error", "close">>
    /\ ctrl.state = "errored"
    /\ ctrl.threw

\* the text is a script with one top-level action that has no nested
\* actions and empty metadata, of color green, whose ids and createdAt are
\* made of the timestamp ts
IsOneActionScript(text, ts) ==
    LET parsed == JSONParse(text)
        actions == Get(parsed.val, "actions")
    IN /\ parsed.ok
       /\ actions.t = "arr"
       /\ Len(actions.v) = 1
       /\ Get(actions.v[1], "actions") = JArr(<<>>)
       /\ Get(Get(actions.v[1], "command"), "metadata") = JObj(<<>>)
       /\ Get(parsed.val, "color") = JStr("green")
       /\ Get(parsed.val, "id") = JStr(ScriptId(ts))
       /\ Get(actions.v[1], "id") = JStr(ActionId(ts))
       /\ Get(parsed.val, "createdAt") = JNum(ts)

\* C30: every chunk enqueued for an action request is a script of exactly
\* one top-level action with an empty nested actions list and empty
\* metadata, of color green, with script id, action id and createdAt made of
\* the one timestamp taken when the stream started, whatever the provider
\* returned.
C30_EmittedScriptShape ==
    isActionRequest =>
       \A i \in 1..Len(ctrl.chunks) : IsOneActionScript(ctrl.chunks[i], timestamp)

\* the provider returned a script of two actions, one with metadata and a
\* nested action, under its own id, color and createdAt, and the sanitized
\* script has been emitted with the name and command name it gave
C30_Witness ==
    /\ isActionRequest
    /\ yielded = <<"script">>
    /\ Len(Get(JSONParse(fullResponse).val, "actions").v) = 2
    /\ Get(JSONParse(fullResponse).val, "color") = JStr("red")
    /\ ctrl.state = "closed"
    /\ Len(ctrl.chunks) = 1
    /\ Get(JSONParse(ctrl.chunks[1]).val, "name") = JStr("Make variant")
    /\ Get(Get(Get(JSONParse(ctrl.chunks[1]).val, "actions").v[1], "command"), "name")
          = JStr("createVariant")
    /\ IsOneActionScript(ctrl.chunks[1], timestamp)

(***************************************************************************)
(* Properties of the chat pages.                                           *)
(***************************************************************************)
\* the EXECUTE_AUTOMATOR messages the effect has posted for the k-th message
EffectSends(k) ==
    {i \in 1..Len(posted) :
        /\ posted[i].type = "EXECUTE_AUTOMATOR"
        /\ posted[i].by = "effect"
        /\ posted[i].message = k}

\* C26: for each assistant message that holds a script the auto page posts
\* EXECUTE_AUTOMATOR at most once, however often the messages list is
\* replaced while that message is the last one.
C26_ExecutedAtMostOnce ==
    uiVariant = "auto" => \A k \in 1..Len(uiMessages) : Cardinality(EffectSends(k)) <= 1

\* the response was a script followed by prose, and the script has been
\* posted once for each of the two updates
C26_PostedPerUpdate ==
    /\ uiVariant = "auto"
    /\ Len(uiMessages) = 2
    /\ uiMessages[2].content = ChunkText("script") \o ChunkText("prose")
    /\ Cardinality(EffectSends(2)) = 2
    /\ \A i \in EffectSends(2) : posted[i].script = JSONParse(ChunkText("script")).val

\* C27: the selection in the body of a chat request whose submission posted
\* GET_SELECTION is the selection the plugin returns in the SELECTION_INFO
\* for that GET_SELECTION.
C27_SelectionOfSameSubmission ==
    \A r \in 1..Len(chatSent), m \in 1..Len(toUi) :
        (chatSent[r].get # 0 /\ toUi[m].type = "SELECTION_INFO" /\ toUi[m].get = chatSent[r].get)
           => chatSent[r].selection = [def |-> TRUE, sel |-> toUi[m].selection]

\* the page knew of a selected node, the user deselected it and asked about
\* the selection before SELECTION_CHANGED was handled: the request carries
\* the node, the SELECTION_INFO for it the empty selection
C27_OlderSelectionSent ==
    /\ Len(chatSent) = 1
    /\ chatSent[1].get # 0
    /\ chatSent[1].selection = [def |-> TRUE, sel |-> <<3>>]
    /\ \E m \in 1..Len(toUi) :
          /\ toUi[m].type = "SELECTION_INFO"
          /\ toUi[m].get = chatSent[1].get
          /\ toUi[m].selection = <<>>

\* C29: on the confirm page EXECUTE_AUTOMATOR is posted only by a click on
\* Execute Script while a script is pending; the click posts that script,
\* once, and clears it; a step that submits a message, or any other step,
\* posts nothing.
C29_OnlyClickSends ==
    [][(uiVariant = "confirm" /\ posted' # posted) =>
          /\ scriptToExecute # JUndef
          /\ scriptToExecute' = JUndef
          /\ uiMessages' = uiMessages
          /\ Len(posted') = Len(posted) + 1
          /\ SubSeq(posted', 1, Len(posted)) = posted
          /\ posted'[Len(posted')].type = "EXECUTE_AUTOMATOR"
          /\ posted'[Len(posted')].script = scriptToExecute]_vars

\* a script was answered and is pending, the user submitted another message
\* and the timer of that submission has posted the script, with no click
C29_PostedByTimer ==
    /\ uiVariant = "confirm"
    /\ Len(uiMessages) = 3
    /\ uiMessages[2].content = ChunkText("script")
    /\ uiMessages[3].role = "user"
    /\ scriptToExecute # JUndef
    /\ Len(posted) = 1
    /\ posted[1].by = "timer"
    /\ posted[1].script = JSONParse(ChunkText("script")).val

====
